---- MODULE Spec2Model ----
(***************************************************************************)
(* A model of the intelligent query router: the rule-based QueryClassifier *)
(* (query_classifier.py) and the orchestrator IntelligentQueryRouter       *)
(* (main.py).  Python strings are TLA+ strings; a character is a string of *)
(* length one.  Python's str and re operations used by the classifier are  *)
(* modelled by what they compute.                                          *)
(***************************************************************************)
EXTENDS Integers, Sequences, FiniteSets, TLC

(***************************************************************************)
(* Python str operations                                                   *)
(***************************************************************************)

\* The characters of a string, as a set.
Chars(s) == { SubSeq(s, i, i) : i \in 1..Len(s) }

AsciiUpper == "ABCDEFGHIJKLMNOPQRSTUVWXYZ"
AsciiLower == "abcdefghijklmnopqrstuvwxyz"
Digits == Chars("0123456789")
Letters == Chars(AsciiUpper) \cup Chars(AsciiLower)

\* str.isspace() of one character (the ASCII whitespace TLA+ can write).
Whitespace == {" ", "\t", "\n", "\r", "\f"}

\* str.lower() of one character.
LowerTable ==
    [ c \in Chars(AsciiUpper) |->
        LET i == CHOOSE i \in 1..Len(AsciiUpper) : SubSeq(AsciiUpper, i, i) = c
        IN  SubSeq(AsciiLower, i, i) ]

LowerChar(c) == IF c \in DOMAIN LowerTable THEN LowerTable[c] ELSE c

\* str.lower()
RECURSIVE Lower(_)
Lower(s) == IF s = "" THEN "" ELSE LowerChar(Head(s)) \o Lower(Tail(s))

\* str.lstrip(), str.rstrip(), str.strip() with no argument.
RECURSIVE LStrip(_)
LStrip(s) == IF s # "" /\ Head(s) \in Whitespace THEN LStrip(Tail(s)) ELSE s

RECURSIVE RStrip(_)
RStrip(s) ==
    IF s # "" /\ SubSeq(s, Len(s), Len(s)) \in Whitespace
    THEN RStrip(SubSeq(s, 1, Len(s) - 1))
    ELSE s

Strip(s) == RStrip(LStrip(s))

\* str.split() with no argument: the maximal runs of non-whitespace, in order.
\* `cur` is the token being read.
RECURSIVE SplitFrom(_, _)
SplitFrom(s, cur) ==
    IF s = "" THEN (IF cur = "" THEN <<>> ELSE <<cur>>)
    ELSE IF Head(s) \in Whitespace
         THEN (IF cur = "" THEN <<>> ELSE <<cur>>) \o SplitFrom(Tail(s), "")
         ELSE SplitFrom(Tail(s), cur \o Head(s))

Split(s) == SplitFrom(s, "")

\* `keyword in query` for strings.
IsSubstring(keyword, query) ==
    \E i \in 1..(Len(query) - Len(keyword) + 1) :
        SubSeq(query, i, i + Len(keyword) - 1) = keyword

(***************************************************************************)
(* Python outcomes: a call returns a value or raises.                      *)
(***************************************************************************)
Ok(v) == [exc |-> "", val |-> v]
Raise(e, dflt) == [exc |-> e, val |-> dflt]

(***************************************************************************)
(* Python re: a pattern is a syntax tree [t, a]; Compile gives the tree of *)
(* each pattern text the program uses.                                     *)
(***************************************************************************)
Lit(s)  == [t |-> "lit",  a |-> s]     \* the characters of s, in order
Cls(S)  == [t |-> "cls",  a |-> S]     \* one character of the set S
Dot     == [t |-> "dot",  a |-> {}]    \* . : any character but a newline
Star(r) == [t |-> "star", a |-> r]     \* r*
Cat(rs) == [t |-> "cat",  a |-> rs]    \* r1 r2 ... rn
Alt(rs) == [t |-> "alt",  a |-> rs]    \* r1 | r2 | ... | rn
Plus(r) == Cat(<<r, Star(r)>>)         \* r+

ReDigit == Cls(Digits)                          \* \d
ReSpace == Cls(Whitespace)                      \* \s
ReOperator == Cls({"+", "-", "*", "/"})         \* [+\-*/]
ReLetter == Cls(Letters)                        \* [a-zA-Z]

\* Ends(r, s, P): the offsets at which a match of r can end when it starts
\* at an offset of P (an offset is the number of characters before it).
RECURSIVE Ends(_, _, _)
RECURSIVE CatEnds(_, _, _, _)
RECURSIVE StarEnds(_, _, _, _)
Ends(r, s, P) ==
    IF P = {} THEN {}
    ELSE CASE r.t = "lit" ->
                { p + Len(r.a) : p \in { q \in P : /\ q + Len(r.a) <= Len(s)
                                                    /\ SubSeq(s, q + 1, q + Len(r.a)) = r.a } }
           [] r.t = "cls" ->
                { p + 1 : p \in { q \in P : q < Len(s) /\ SubSeq(s, q + 1, q + 1) \in r.a } }
           [] r.t = "dot" ->
                { p + 1 : p \in { q \in P : q < Len(s) /\ SubSeq(s, q + 1, q + 1) # "\n" } }
           [] r.t = "star" -> StarEnds(r.a, s, P, P)
           [] r.t = "cat" -> CatEnds(r.a, 1, s, P)
           [] r.t = "alt" -> UNION { Ends(r.a[i], s, P) : i \in 1..Len(r.a) }

CatEnds(rs, i, s, P) ==
    IF i > Len(rs) THEN P ELSE CatEnds(rs, i + 1, s, Ends(rs[i], s, P))

\* Zero or more repetitions: `seen` are the offsets reached, `frontier` the
\* ones not yet extended.
StarEnds(r, s, seen, frontier) ==
    LET new == Ends(r, s, frontier) \ seen
    IN  IF new = {} THEN seen ELSE StarEnds(r, s, seen \cup new, new)

\* re.compile: the tree of each pattern of query_classifier.py.
Compile(pattern) ==
    CASE pattern = "\\d+\\s*[+\\-*/]\\s*\\d+" ->
            Cat(<<Plus(ReDigit), Star(ReSpace), ReOperator, Star(ReSpace), Plus(ReDigit)>>)
      [] pattern = "[a-zA-Z]\\s*[+\\-*/]\\s*\\d+" ->
            Cat(<<ReLetter, Star(ReSpace), ReOperator, Star(ReSpace), Plus(ReDigit)>>)
      [] pattern = "solve|calculate|compute|find.*value" ->
            Alt(<<Lit("solve"), Lit("calculate"), Lit("compute"),
                  Cat(<<Lit("find"), Star(Dot), Lit("value")>>)>>)
      [] pattern = "equation|formula|function" ->
            Alt(<<Lit("equation"), Lit("formula"), Lit("function")>>)
      [] pattern = "x\\s*[+\\-*/]|y\\s*[+\\-*/]" ->
            Alt(<<Cat(<<Lit("x"), Star(ReSpace), ReOperator>>),
                  Cat(<<Lit("y"), Star(ReSpace), ReOperator>>)>>)
      [] pattern = "\\d+\\s*[+\\-*/]\\s*[a-zA-Z]" ->
            Cat(<<Plus(ReDigit), Star(ReSpace), ReOperator, Star(ReSpace), ReLetter>>)
      [] pattern \in {"capital of", "population of", "currency of", "president of",
                      "ceo of", "founded in", "located in"} ->
            Lit(pattern)
      [] pattern = "explain.*how" -> Cat(<<Lit("explain"), Star(Dot), Lit("how")>>)
      [] pattern = "why.*happen"  -> Cat(<<Lit("why"), Star(Dot), Lit("happen")>>)
      [] pattern = "what.*think"  -> Cat(<<Lit("what"), Star(Dot), Lit("think")>>)
      [] pattern = "compare.*and" -> Cat(<<Lit("compare"), Star(Dot), Lit("and")>>)
      [] pattern = "pros.*cons"   -> Cat(<<Lit("pros"), Star(Dot), Lit("cons")>>)
      [] pattern = "best.*way"    -> Cat(<<Lit("best"), Star(Dot), Lit("way")>>)
      [] pattern = "how.*work"    -> Cat(<<Lit("how"), Star(Dot), Lit("work")>>)
      [] pattern = "what.*mean"   -> Cat(<<Lit("what"), Star(Dot), Lit("mean")>>)

\* re.search(pattern, string, flags): TRUE iff the pattern matches somewhere.
\* Under re.IGNORECASE (ignorecase) characters are compared case-folded; the
\* patterns' literals are lower case and [a-zA-Z] holds both cases, so the
\* subject is folded once.
ReSearch(pattern, string, ignorecase) ==
    LET subject == IF ignorecase THEN Lower(string) ELSE string
    IN  Ends(Compile(pattern), subject, 0..Len(subject)) # {}

(***************************************************************************)
(* QueryClassifier (query_classifier.py)                                   *)
(***************************************************************************)

\* QueryClassifier.__init__: the object's fields after construction.
QueryClassifierInit ==
    [ search_keywords |->
        { "what is", "who is", "when is", "where is", "which is",
          "capital of", "population of", "currency of", "language of",
          "president of", "prime minister of", "ceo of", "founder of",
          "located in", "founded in", "established in", "created in",
          "current", "latest", "recent", "today", "now",
          "weather", "temperature", "news", "stock price",
          "address", "phone number", "website", "email",
          "how many", "how much", "how long", "how far",
          "distance between", "time in", "date of", "birthday of" },
      llm_keywords |->
        { "explain", "describe", "analyze", "compare", "contrast",
          "why", "how does", "how to", "what if", "suppose",
          "solve", "calculate", "compute", "find the value",
          "write", "create", "generate", "make", "build",
          "code", "program", "function", "algorithm",
          "opinion", "think", "believe", "recommend",
          "pros and cons", "advantages", "disadvantages",
          "best way", "better", "improve", "optimize",
          "debug", "fix", "error", "problem", "issue",
          "tutorial", "guide", "steps", "process",
          "concept", "theory", "definition", "meaning",
          "example", "sample", "demo", "illustration" },
      math_patterns |->
        << "\\d+\\s*[+\\-*/]\\s*\\d+",
           "[a-zA-Z]\\s*[+\\-*/]\\s*\\d+",
           "solve|calculate|compute|find.*value",
           "equation|formula|function",
           "x\\s*[+\\-*/]|y\\s*[+\\-*/]",
           "\\d+\\s*[+\\-*/]\\s*[a-zA-Z]" >> ]

\* Mutant: the loop returns after its first pattern, matched or not.
IsMathematicalQuery_FirstPatternOnly(self, query) ==
    ReSearch(self.math_patterns[1], query, TRUE)

\* _is_mathematical_query: the first pattern that matches returns True.
RECURSIVE MathLoop(_, _, _)
MathLoop(patterns, i, query) ==
    IF i > Len(patterns) THEN FALSE
    ELSE IF ReSearch(patterns[i], query, TRUE) THEN TRUE
    ELSE MathLoop(patterns, i + 1, query)

IsMathematicalQuery(self, query) == MathLoop(self.math_patterns, 1, query)

\* `for keyword in keywords: if keyword in query: score += 1`, the set
\* iterated in some order.
RECURSIVE KeywordLoop(_, _, _)
KeywordLoop(keywords, query, score) ==
    IF keywords = {} THEN score
    ELSE LET keyword == CHOOSE k \in keywords : TRUE
         IN  KeywordLoop(keywords \ {keyword}, query,
                         IF IsSubstring(keyword, query) THEN score + 1 ELSE score)

\* `for pattern in patterns: if re.search(pattern, query): score += 2`
RECURSIVE PatternLoop(_, _, _, _)
PatternLoop(patterns, i, query, score) ==
    IF i > Len(patterns) THEN score
    ELSE PatternLoop(patterns, i + 1, query,
                     IF ReSearch(patterns[i], query, FALSE) THEN score + 2 ELSE score)

\* list[i] (i counted from 0): the element, or IndexError.
ListIndex(list, i) ==
    IF i < Len(list) THEN Ok(list[i + 1]) ELSE Raise("IndexError", "")

question_starters == <<"what", "who", "when", "where", "which", "how">>

factual_patterns ==
    << "capital of", "population of", "currency of", "president of",
       "ceo of", "founded in", "located in" >>

analytical_patterns ==
    << "explain.*how", "why.*happen", "what.*think", "compare.*and",
       "pros.*cons", "best.*way", "how.*work", "what.*mean" >>

\* Mutant: the first token is indexed without the emptiness guard.
FirstWord_Unguarded(query) == ListIndex(Split(query), 0)

\* first_word = query.split()[0] if query.split() else ""
FirstWord(query) ==
    IF Split(query) # <<>> THEN ListIndex(Split(query), 0) ELSE Ok("")

\* Mutant: a keyword scores once per occurrence instead of once.
RECURSIVE KeywordLoop_PerOccurrence(_, _, _)
KeywordLoop_PerOccurrence(keywords, query, score) ==
    IF keywords = {} THEN score
    ELSE LET keyword == CHOOSE k \in keywords : TRUE
             occurrences ==
                 Cardinality({ i \in 1..(Len(query) - Len(keyword) + 1) :
                                 SubSeq(query, i, i + Len(keyword) - 1) = keyword })
         IN  KeywordLoop_PerOccurrence(keywords \ {keyword}, query, score + occurrences)

CalculateSearchScore_PerOccurrence(self, query) ==
    LET keyword_score == KeywordLoop_PerOccurrence(self.search_keywords, query, 0)
        first_word == FirstWord(query)
        starter_score ==
            IF \E i \in 1..Len(question_starters) : question_starters[i] = first_word.val
            THEN keyword_score + 1 ELSE keyword_score
    IN  Ok(PatternLoop(factual_patterns, 1, query, starter_score))

\* Mutant: the first token earns no bonus.
CalculateSearchScore_NoStarterBonus(self, query) ==
    Ok(PatternLoop(factual_patterns, 1, query,
                   KeywordLoop(self.search_keywords, query, 0)))

\* _calculate_search_score
CalculateSearchScore(self, query) ==
    LET keyword_score == KeywordLoop(self.search_keywords, query, 0)
        first_word == FirstWord(query)
    IN  IF first_word.exc # "" THEN Raise(first_word.exc, 0)
        ELSE LET starter_score ==
                     IF \E i \in 1..Len(question_starters) :
                            question_starters[i] = first_word.val
                     THEN keyword_score + 1 ELSE keyword_score
             IN  Ok(PatternLoop(factual_patterns, 1, query, starter_score))

\* Mutant: the length bonus is given from 5 tokens on (>= instead of >).
CalculateLlmScore_FromFiveTokens(self, query) ==
    LET keyword_score == KeywordLoop(self.llm_keywords, query, 0)
        pattern_score == PatternLoop(analytical_patterns, 1, query, keyword_score)
    IN  Ok(IF Len(Split(query)) >= 5 THEN pattern_score + 1 ELSE pattern_score)

\* _calculate_llm_score
CalculateLlmScore(self, query) ==
    LET keyword_score == KeywordLoop(self.llm_keywords, query, 0)
        pattern_score == PatternLoop(analytical_patterns, 1, query, keyword_score)
    IN  Ok(IF Len(Split(query)) > 5 THEN pattern_score + 1 ELSE pattern_score)

\* Mutant: the mathematical check is left out; the scores alone decide.
ClassifyQuery_ScoresOnly(self, query) ==
    LET query_lower == Strip(Lower(query))
        search_score == CalculateSearchScore(self, query_lower)
        llm_score == CalculateLlmScore(self, query_lower)
    IN  IF search_score.val > llm_score.val THEN Ok("search") ELSE Ok("llm")

\* Mutant: a tie goes to search (>= instead of >).
ClassifyQuery_TieToSearch(self, query) ==
    LET query_lower == Strip(Lower(query))
        search_score == CalculateSearchScore(self, query_lower)
        llm_score == CalculateLlmScore(self, query_lower)
    IN  IF IsMathematicalQuery(self, query_lower) THEN Ok("llm")
        ELSE IF search_score.val >= llm_score.val THEN Ok("search")
        ELSE Ok("llm")

\* Mutant: a tie is reported as 'unknown' instead of defaulting to 'llm'.
ClassifyQuery_TieUnknown(self, query) ==
    LET query_lower == Strip(Lower(query))
        search_score == CalculateSearchScore(self, query_lower)
        llm_score == CalculateLlmScore(self, query_lower)
    IN  IF IsMathematicalQuery(self, query_lower) THEN Ok("llm")
        ELSE IF search_score.val > llm_score.val THEN Ok("search")
        ELSE IF llm_score.val > search_score.val THEN Ok("llm")
        ELSE Ok("unknown")

\* classify_query
ClassifyQuery(self, query) ==
    LET query_lower == Strip(Lower(query))
    IN  IF IsMathematicalQuery(self, query_lower) THEN Ok("llm")
        ELSE LET search_score == CalculateSearchScore(self, query_lower)
                 llm_score == CalculateLlmScore(self, query_lower)
             IN  IF search_score.exc # "" THEN Raise(search_score.exc, "")
                 ELSE IF llm_score.exc # "" THEN Raise(llm_score.exc, "")
                 ELSE IF search_score.val > llm_score.val THEN Ok("search")
                 ELSE IF llm_score.val > search_score.val THEN Ok("llm")
                 ELSE Ok("llm")

\* The matched keywords, appended in the order the set is iterated.
RECURSIVE MatchedLoop(_, _, _)
MatchedLoop(keywords, query, matched) ==
    IF keywords = {} THEN matched
    ELSE LET keyword == CHOOSE k \in keywords : TRUE
         IN  MatchedLoop(keywords \ {keyword}, query,
                         IF IsSubstring(keyword, query)
                         THEN Append(matched, keyword) ELSE matched)

\* Mutant: the explanation derives the classification from the two scores
\* it reports instead of asking classify_query.
GetClassificationExplanation_FromScores(self, query) ==
    LET query_lower == Strip(Lower(query))
        search_score == CalculateSearchScore(self, query_lower)
        llm_score == CalculateLlmScore(self, query_lower)
    IN  Ok([ query |-> query,
             classification |->
                 IF search_score.val > llm_score.val THEN "search" ELSE "llm",
             search_score |-> search_score.val,
             llm_score |-> llm_score.val,
             is_mathematical |-> IsMathematicalQuery(self, query_lower),
             matched_search_keywords |->
                 MatchedLoop(self.search_keywords, query_lower, <<>>),
             matched_llm_keywords |->
                 MatchedLoop(self.llm_keywords, query_lower, <<>>) ])

\* Mutant: the keywords are looked for in the query as typed.
GetClassificationExplanation_MatchesAsTyped(self, query) ==
    LET query_lower == Strip(Lower(query))
    IN  Ok([ query |-> query,
             classification |-> ClassifyQuery(self, query).val,
             search_score |-> CalculateSearchScore(self, query_lower).val,
             llm_score |-> CalculateLlmScore(self, query_lower).val,
             is_mathematical |-> IsMathematicalQuery(self, query_lower),
             matched_search_keywords |->
                 MatchedLoop(self.search_keywords, query, <<>>),
             matched_llm_keywords |->
                 MatchedLoop(self.llm_keywords, query, <<>>) ])

\* get_classification_explanation
GetClassificationExplanation(self, query) ==
    LET query_lower == Strip(Lower(query))
        classification_ == ClassifyQuery(self, query)
        search_score == CalculateSearchScore(self, query_lower)
        llm_score == CalculateLlmScore(self, query_lower)
    IN  IF classification_.exc # "" THEN Raise(classification_.exc, <<>>)
        ELSE IF search_score.exc # "" THEN Raise(search_score.exc, <<>>)
        ELSE IF llm_score.exc # "" THEN Raise(llm_score.exc, <<>>)
        ELSE Ok([ query |-> query,
                  classification |-> classification_.val,
                  search_score |-> search_score.val,
                  llm_score |-> llm_score.val,
                  is_mathematical |-> IsMathematicalQuery(self, query_lower),
                  matched_search_keywords |->
                      MatchedLoop(self.search_keywords, query_lower, <<>>),
                  matched_llm_keywords |->
                      MatchedLoop(self.llm_keywords, query_lower, <<>>) ])

(***************************************************************************)
(* Python dict: a function from keys to values; {} is the empty function.  *)
(***************************************************************************)
EmptyDict == <<>>
\* d[k] = v
DictSet(d, k, v) == [key \in DOMAIN d \cup {k} |-> IF key = k THEN v ELSE d[key]]

(***************************************************************************)
(* Exceptions: `except Exception` catches the classes derived from         *)
(* Exception; KeyboardInterrupt and SystemExit derive from BaseException   *)
(* only.                                                                   *)
(***************************************************************************)
BaseExceptionOnly == {"KeyboardInterrupt", "SystemExit"}
IsException(e) == e \notin BaseExceptionOnly

(***************************************************************************)
(* The provider collaborators, as the orchestrator sees them: a call       *)
(* returns a result dict (a success or an error-shaped one) or raises.     *)
(* The orchestrator holds them as plain attributes, so a raising provider  *)
(* (a stub, a replaced client) is an outcome it must handle; Ctrl-C while  *)
(* a provider sleeps or waits for the network raises KeyboardInterrupt out *)
(* of the provider call.                                                   *)
(***************************************************************************)
ProviderOutcomes == {"success", "error_result", "RuntimeError", "KeyboardInterrupt"}

\* GoogleSearcher._create_error_result
GoogleCreateErrorResult(error_message) ==
    [ query |-> "",
      answer |-> "Sorry, I couldn't search Google: " \o error_message,
      urls |-> <<>>,
      snippets |-> <<>>,
      error |-> error_message ]

\* GoogleSearcher.search(query)
GoogleSearcherSearch(query, outcome) ==
    CASE outcome = "success" ->
            Ok([ query |-> query, answer |-> "snippet", urls |-> <<"url">>,
                 snippets |-> <<"snippet">>, answer_type |-> "first_result" ])
      [] outcome = "error_result" ->
            Ok(GoogleCreateErrorResult("Failed to get search results"))
      [] OTHER -> Raise(outcome, EmptyDict)

\* LLMClient._create_error_result
LLMCreateErrorResult(error_message) ==
    [ query |-> "",
      answer |-> "Sorry, I couldn't process your request: " \o error_message,
      model |-> "gpt-3.5-turbo",
      error |-> error_message ]

\* LLMClient.query(prompt)
LLMClientQuery(prompt, outcome) ==
    CASE outcome = "success" ->
            Ok([ query |-> prompt, answer |-> "answer", model |-> "gpt-3.5-turbo",
                 tokens_used |-> 1, finish_reason |-> "stop" ])
      [] outcome = "error_result" ->
            Ok(LLMCreateErrorResult("Failed to get response from LLM"))
      [] OTHER -> Raise(outcome, EmptyDict)

(***************************************************************************)
(* Inputs                                                                  *)
(***************************************************************************)

\* Fragments a query is put together from: search keywords, llm keywords,
\* mathematical text, upper case, whitespace, several tokens.
Vocabulary ==
    { "", "What is ", "the capital of ", "Explain how ", "2 + 2", "x-",
      "\n", "now", "why ", "Solve ", "How " }

Filler == " a"
MaxFiller == 2

RECURSIVE Repeat(_, _)
Repeat(s, n) == IF n = 0 THEN "" ELSE s \o Repeat(s, n - 1)

\* Queries the repository's own demos, tests and welcome text use.
Examples ==
    { "What is the capital of France?", "Solve 2x + 5 = 15",
      "Explain machine learning", "Who is the CEO of Apple?",
      "What is machine learning?", "What is the capital of India?",
      "How does a neural network work?", "Current weather in New York" }

Queries ==
    Examples \cup
    { p1 \o p2 \o p3 \o Repeat(Filler, k) :
        p1 \in Vocabulary, p2 \in Vocabulary, p3 \in Vocabulary, k \in 0..MaxFiller }

(***************************************************************************)
(* State                                                                   *)
(***************************************************************************)
VARIABLES
    classifier,      \* the QueryClassifier object: its keyword sets and patterns
    pc,              \* where the caller is: "idle", inside or back from a call
    query,           \* the argument of the current call
    classification,  \* what classify_query returned or raised
    explanation,     \* what get_classification_explanation returned or raised
    first_call,      \* history: the first classify_query call and its result
    query_type,      \* process_query: the local query_type
    result,          \* process_query: the dict it returned
    escaped,         \* process_query: the exception that left it, "" if none
    trace,           \* process_query: the calls it made to its collaborators,
                     \* each with the exception it raised ("" if it returned)
    state,           \* LangGraphRouter: the RouterState of the graph run
    total_tokens_used,  \* LLMClient.total_tokens_used
    lines_read,      \* run_interactive_mode: the lines input() returned, in order
    calls_made,      \* run_interactive_mode: the arguments of its process_query
                     \* calls, in order
    now,             \* time.time(), in whole seconds
    last_request_time,  \* last_request_time of the GoogleSearcher and of the LLMClient
    request_log,     \* history: for each client, the times at which its two
                     \* most recent outbound HTTP requests started
    tokens_since_reset  \* history: the sum of tokens_used over the results
                     \* LLMClient.query returned without 'error' since the last
                     \* reset_usage_stats (or since construction)

vars == <<classifier, pc, query, classification, explanation, first_call,
          query_type, result, escaped, trace, state, total_tokens_used,
          lines_read, calls_made, now, last_request_time, request_log,
          tokens_since_reset>>

NoReturn == Ok("")
NoExplanation == Ok(EmptyDict)
NoCall == [called |-> FALSE, query |-> "", ret |-> NoReturn, others |-> FALSE]
NoState == [query |-> "", tool_decision |-> "", result |-> EmptyDict, error |-> ""]

\* time.time() when the clients are constructed, in seconds from an origin
\* that lies further back than any min_delay (the clock reads the seconds
\* since 1970).
StartTime == 5

\* IntelligentQueryRouter.__init__ (and QueryClassifier.__init__): nothing
\* has been called yet.
Constructed ==
    /\ classifier = QueryClassifierInit
    /\ pc = "idle"
    /\ classification = NoReturn
    /\ explanation = NoExplanation
    /\ first_call = NoCall
    /\ query_type = ""
    /\ result = EmptyDict
    /\ escaped = ""
    /\ trace = <<>>
    /\ state = NoState
    /\ total_tokens_used = 0
    /\ lines_read = <<>>
    /\ calls_made = <<>>
    /\ now = StartTime
    /\ last_request_time = [google |-> 0, llm |-> 0]
    /\ request_log = [google |-> <<>>, llm |-> <<>>]
    /\ tokens_since_reset = 0

(***************************************************************************)
(* A client of the classifier                                              *)
(***************************************************************************)

\* classifier.classify_query(q)
ClassifyQueryCall(q) ==
    /\ pc = "idle"
    /\ pc' = "classify_query"
    /\ query' = q
    /\ classification' = ClassifyQuery(classifier, q)
    /\ classifier' = classifier
    /\ UNCHANGED <<explanation, query_type, result, escaped, trace>>

\* Mutant: the explanation filters the classifier's own llm keyword set down
\* to the matched keywords instead of building a new list.
GetClassificationExplanationCall_FiltersInPlace(q) ==
    /\ pc = "idle"
    /\ pc' = "get_classification_explanation"
    /\ query' = q
    /\ explanation' = GetClassificationExplanation(classifier, q)
    /\ classifier' =
           [classifier EXCEPT !.llm_keywords =
                { k \in @ : IsSubstring(k, Strip(Lower(q))) }]
    /\ UNCHANGED <<classification, query_type, result, escaped, trace>>

\* classifier.get_classification_explanation(q)
GetClassificationExplanationCall(q) ==
    /\ pc = "idle"
    /\ pc' = "get_classification_explanation"
    /\ query' = q
    /\ explanation' = GetClassificationExplanation(classifier, q)
    /\ classifier' = classifier
    /\ UNCHANGED <<classification, query_type, result, escaped, trace>>

\* The client takes the returned value and is ready for its next call.
ClientReturn ==
    /\ pc \in {"classify_query", "get_classification_explanation"}
    /\ pc' = "idle"
    /\ classification' = NoReturn
    /\ explanation' = NoExplanation
    /\ UNCHANGED <<classifier, query, query_type, result, escaped, trace>>

(***************************************************************************)
(* IntelligentQueryRouter.process_query (main.py)                          *)
(***************************************************************************)

\* Mutant: the handler's result lacks the query.
ErrorHandlerResult_NoQuery(e, q) ==
    [ error |-> e, source |-> "Error Handler" ]

\* Mutant: the handler puts the exception's text under 'message'.
ErrorHandlerResult_AsMessage(e, q) ==
    [ message |-> e, query |-> q, source |-> "Error Handler" ]

\* `except Exception as e: return {...}`: the handler's result for an
\* exception it catches.
ErrorHandlerResult(e, q) ==
    [ error |-> e, query |-> q, source |-> "Error Handler" ]

\* process_query(q) is entered.
ProcessQuery(q) ==
    /\ pc = "idle"
    /\ pc' = "pq_classify"
    /\ query' = q
    /\ query_type' = ""
    /\ result' = EmptyDict
    /\ escaped' = ""
    /\ trace' = <<>>
    /\ UNCHANGED <<classifier, classification, explanation>>

\* query_type = self.classifier.classify_query(query)
PQClassify ==
    /\ pc = "pq_classify"
    /\ LET ret == ClassifyQuery(classifier, query)
       IN  /\ trace' = Append(trace, [call |-> "classifier.classify_query",
                                      arg |-> query, raised |-> ret.exc,
                                      returned |-> ret.val])
           /\ IF ret.exc = ""
              THEN /\ query_type' = ret.val
                   /\ pc' = "pq_route"
                   /\ UNCHANGED <<result, escaped>>
              ELSE IF IsException(ret.exc)
              THEN /\ result' = ErrorHandlerResult(ret.exc, query)
                   /\ pc' = "pq_returned"
                   /\ UNCHANGED <<query_type, escaped>>
              ELSE /\ escaped' = ret.exc
                   /\ pc' = "pq_raised"
                   /\ UNCHANGED <<query_type, result>>
    /\ UNCHANGED <<classifier, query, classification, explanation>>

\* Mutant: `if` where the code has `elif`, so that after a search the else
\* branch calls the LLM provider as well and its result is the one returned.
PQRoute_FallsThrough(outcome) ==
    /\ pc = "pq_route"
    /\ LET searched == IF query_type = "search"
                       THEN <<[call |-> "google_searcher.search", arg |-> query,
                               raised |-> "", returned |-> EmptyDict]>>
                       ELSE <<>>
           source == IF query_type = "llm" THEN "OpenAI LLM" ELSE "OpenAI LLM (fallback)"
           ret == LLMClientQuery(query, outcome)
       IN  /\ trace' = (trace \o searched) \o
                           <<[call |-> "llm_client.query", arg |-> query,
                              raised |-> ret.exc, returned |-> ret.val]>>
           /\ IF ret.exc = ""
              THEN /\ result' = DictSet(DictSet(ret.val, "source", source),
                                        "query_type", query_type)
                   /\ pc' = "pq_returned"
                   /\ UNCHANGED escaped
              ELSE IF IsException(ret.exc)
              THEN /\ result' = [error |-> ret.exc, query |-> query,
                                 source |-> "Error Handler"]
                   /\ pc' = "pq_returned"
                   /\ UNCHANGED escaped
              ELSE /\ escaped' = ret.exc
                   /\ pc' = "pq_raised"
                   /\ UNCHANGED result
    /\ UNCHANGED <<classifier, query, classification, explanation, query_type>>

\* Mutant: a provider result that carries an 'error' is returned as the
\* provider made it, without source and query_type.
PQRoute_ErrorResultUntagged(outcome) ==
    /\ pc = "pq_route"
    /\ LET provider == IF query_type = "search" THEN "google_searcher.search"
                       ELSE "llm_client.query"
           source == IF query_type = "search" THEN "Google Search"
                     ELSE IF query_type = "llm" THEN "OpenAI LLM"
                     ELSE "OpenAI LLM (fallback)"
           ret == IF query_type = "search" THEN GoogleSearcherSearch(query, outcome)
                  ELSE LLMClientQuery(query, outcome)
       IN  /\ trace' = Append(trace, [call |-> provider, arg |-> query,
                                      raised |-> ret.exc, returned |-> ret.val])
           /\ IF ret.exc = ""
              THEN /\ result' = IF "error" \in DOMAIN ret.val THEN ret.val
                                ELSE DictSet(DictSet(ret.val, "source", source),
                                             "query_type", query_type)
                   /\ pc' = "pq_returned"
                   /\ UNCHANGED escaped
              ELSE IF IsException(ret.exc)
              THEN /\ result' = ErrorHandlerResult(ret.exc, query)
                   /\ pc' = "pq_returned"
                   /\ UNCHANGED escaped
              ELSE /\ escaped' = ret.exc
                   /\ pc' = "pq_raised"
                   /\ UNCHANGED result
    /\ UNCHANGED <<classifier, query, classification, explanation, query_type>>

\* The if / elif / else on query_type: the provider is called, its result is
\* tagged with source and query_type and returned; an exception goes to the
\* handler.
PQRoute(outcome) ==
    /\ pc = "pq_route"
    /\ LET provider == IF query_type = "search" THEN "google_searcher.search"
                       ELSE "llm_client.query"
           source == IF query_type = "search" THEN "Google Search"
                     ELSE IF query_type = "llm" THEN "OpenAI LLM"
                     ELSE "OpenAI LLM (fallback)"
           ret == IF query_type = "search" THEN GoogleSearcherSearch(query, outcome)
                  ELSE LLMClientQuery(query, outcome)
       IN  /\ trace' = Append(trace, [call |-> provider, arg |-> query,
                                      raised |-> ret.exc, returned |-> ret.val])
           /\ IF ret.exc = ""
              THEN /\ result' = DictSet(DictSet(ret.val, "source", source),
                                        "query_type", query_type)
                   /\ pc' = "pq_returned"
                   /\ UNCHANGED escaped
              ELSE IF IsException(ret.exc)
              THEN /\ result' = ErrorHandlerResult(ret.exc, query)
                   /\ pc' = "pq_returned"
                   /\ UNCHANGED escaped
              ELSE /\ escaped' = ret.exc
                   /\ pc' = "pq_raised"
                   /\ UNCHANGED result
    /\ UNCHANGED <<classifier, query, classification, explanation, query_type>>

\* The caller has the result (or the exception) and asks again.
PQFinish ==
    /\ pc \in {"pq_returned", "pq_raised"}
    /\ pc' = "idle"
    /\ query' = ""
    /\ query_type' = ""
    /\ result' = EmptyDict
    /\ escaped' = ""
    /\ trace' = <<>>
    /\ UNCHANGED <<classifier, classification, explanation>>

(***************************************************************************)
(* IntelligentQueryRouter.run_interactive_mode (main.py)                   *)
(***************************************************************************)

\* The bound on the number of lines read in one run of the loop.
MaxLines == 3

\* ['quit', 'exit', 'q']
ExitCommands == {"quit", "exit", "q"}

\* What input() gives: a line without its newline, or an exception (Ctrl-C,
\* the end of the input).
LoopLines ==
    { "quit", " EXIT ", "Q", "", "  \t", "quit now", "exit\r",
      "What is the capital of France?", " Solve 2x + 5 = 15 " }
InputOutcomes ==
    { Ok(line) : line \in LoopLines } \cup
    { Raise("KeyboardInterrupt", ""), Raise("EOFError", "") }

\* run_interactive_mode() is entered: the banner and the welcome text are
\* printed and the loop waits for its first line.
RunInteractiveMode ==
    /\ pc = "idle"
    /\ pc' = "loop_input"
    /\ lines_read' = <<>>
    /\ calls_made' = <<>>
    /\ UNCHANGED <<classifier, query, classification, explanation, query_type,
                   result, escaped, trace>>

\* Mutant: the exit commands are looked for in the line as typed, before it
\* is stripped.
LoopInput_ExitBeforeStrip(inp) ==
    /\ pc = "loop_input"
    /\ IF inp.exc = "KeyboardInterrupt"
       THEN /\ pc' = "loop_ended"
            /\ UNCHANGED <<lines_read, calls_made, query, query_type, result,
                           escaped, trace>>
       ELSE IF inp.exc # ""
       THEN /\ pc' = IF IsException(inp.exc) THEN "loop_input" ELSE "loop_raised"
            /\ UNCHANGED <<lines_read, calls_made, query, query_type, result,
                           escaped, trace>>
       ELSE /\ Len(lines_read) < MaxLines
            /\ lines_read' = Append(lines_read, inp.val)
            /\ LET q == Strip(inp.val)
               IN  IF Lower(inp.val) \in ExitCommands
                   THEN /\ pc' = "loop_ended"
                        /\ UNCHANGED <<calls_made, query, query_type, result,
                                       escaped, trace>>
                   ELSE IF q = ""
                   THEN /\ pc' = "loop_input"
                        /\ UNCHANGED <<calls_made, query, query_type, result,
                                       escaped, trace>>
                   ELSE /\ calls_made' = Append(calls_made, q)
                        /\ pc' = "pq_classify"
                        /\ query' = q
                        /\ query_type' = ""
                        /\ result' = EmptyDict
                        /\ escaped' = ""
                        /\ trace' = <<>>
    /\ UNCHANGED <<classifier, classification, explanation>>

\* One pass of `while True` up to the call of process_query: input() gives
\* inp; the line is stripped; an exit command ends the loop, an empty line
\* asks again, any other line is passed to process_query.  KeyboardInterrupt
\* ends the loop, any other Exception is printed and the loop asks again.
LoopInput(inp) ==
    /\ pc = "loop_input"
    /\ IF inp.exc = "KeyboardInterrupt"
       THEN /\ pc' = "loop_ended"
            /\ UNCHANGED <<lines_read, calls_made, query, query_type, result,
                           escaped, trace>>
       ELSE IF inp.exc # ""
       THEN /\ pc' = IF IsException(inp.exc) THEN "loop_input" ELSE "loop_raised"
            /\ UNCHANGED <<lines_read, calls_made, query, query_type, result,
                           escaped, trace>>
       ELSE /\ Len(lines_read) < MaxLines
            /\ lines_read' = Append(lines_read, inp.val)
            /\ LET q == Strip(inp.val)
               IN  IF Lower(q) \in ExitCommands
                   THEN /\ pc' = "loop_ended"
                        /\ UNCHANGED <<calls_made, query, query_type, result,
                                       escaped, trace>>
                   ELSE IF q = ""
                   THEN /\ pc' = "loop_input"
                        /\ UNCHANGED <<calls_made, query, query_type, result,
                                       escaped, trace>>
                   ELSE /\ calls_made' = Append(calls_made, q)
                        /\ pc' = "pq_classify"
                        /\ query' = q
                        /\ query_type' = ""
                        /\ result' = EmptyDict
                        /\ escaped' = ""
                        /\ trace' = <<>>
    /\ UNCHANGED <<classifier, classification, explanation>>

\* process_query is back: its result is displayed and the loop asks again;
\* a KeyboardInterrupt that left it ends the loop, another Exception is
\* printed, anything else leaves run_interactive_mode.
LoopDisplay ==
    /\ pc \in {"pq_returned", "pq_raised"}
    /\ pc' = IF pc = "pq_returned" THEN "loop_input"
             ELSE IF escaped = "KeyboardInterrupt" THEN "loop_ended"
             ELSE IF IsException(escaped) THEN "loop_input"
             ELSE "loop_raised"
    /\ query' = ""
    /\ query_type' = ""
    /\ result' = EmptyDict
    /\ escaped' = ""
    /\ trace' = <<>>
    /\ UNCHANGED <<classifier, classification, explanation, lines_read, calls_made>>

\* run_interactive_mode has returned (or raised) and main() ends.
LoopFinish ==
    /\ pc \in {"loop_ended", "loop_raised"}
    /\ pc' = "idle"
    /\ lines_read' = <<>>
    /\ calls_made' = <<>>
    /\ UNCHANGED <<classifier, query, classification, explanation, query_type,
                   result, escaped, trace>>

(***************************************************************************)
(* LangGraphRouter (langgraph_router.py)                                   *)
(***************************************************************************)

\* RouterState(query=query, tool_decision="", result={}, error="")
InitialState(q) ==
    [query |-> q, tool_decision |-> "", result |-> EmptyDict, error |-> ""]

\* Mutant: the reply is compared as the model wrote it, neither trimmed nor
\* lowercased.
ToolDecision_AsReplied(content) ==
    IF content \in {"google_tool", "llm_tool"} THEN content
    ELSE IF IsSubstring("google", content) \/ IsSubstring("search", content)
    THEN "google_tool"
    ELSE "llm_tool"

\* Mutant: an unclear reply is kept as the decision instead of defaulting.
ToolDecision_UnclearKept(content) ==
    LET decision == Lower(Strip(content))
    IN  IF decision \in {"google_tool", "llm_tool"} THEN decision
        ELSE IF IsSubstring("google", decision) \/ IsSubstring("search", decision)
        THEN "google_tool"
        ELSE IF \/ IsSubstring("llm", decision)
                \/ IsSubstring("reasoning", decision)
                \/ IsSubstring("explain", decision)
        THEN "llm_tool"
        ELSE decision

\* Mutant: the llm markers are tested before the search markers.
ToolDecision_LlmMarkersFirst(content) ==
    LET decision == Lower(Strip(content))
    IN  IF decision \in {"google_tool", "llm_tool"} THEN decision
        ELSE IF \/ IsSubstring("llm", decision)
                \/ IsSubstring("reasoning", decision)
                \/ IsSubstring("explain", decision)
        THEN "llm_tool"
        ELSE IF IsSubstring("google", decision) \/ IsSubstring("search", decision)
        THEN "google_tool"
        ELSE "llm_tool"

\* _router_node, "Validate and normalize the decision": the tool_decision
\* for the content of the routing model's reply.
ToolDecision(content) ==
    LET decision == Lower(Strip(content))
    IN  IF decision \in {"google_tool", "llm_tool"} THEN decision
        ELSE IF IsSubstring("google", decision) \/ IsSubstring("search", decision)
        THEN "google_tool"
        ELSE IF \/ IsSubstring("llm", decision)
                \/ IsSubstring("reasoning", decision)
                \/ IsSubstring("explain", decision)
        THEN "llm_tool"
        ELSE "llm_tool"

\* Mutant: the fallback of the router node records no error text.
RouterNode_SilentFallback(st, response) ==
    IF response.exc = ""
    THEN Ok([st EXCEPT !.tool_decision = ToolDecision(response.val)])
    ELSE IF IsException(response.exc)
    THEN Ok([st EXCEPT !.tool_decision = "llm_tool"])
    ELSE Raise(response.exc, st)

\* _router_node(state), `response` being what self.llm.invoke returned or
\* raised: the state the node returns, or the exception that leaves it.
RouterNode(st, response) ==
    IF response.exc = ""
    THEN Ok([st EXCEPT !.tool_decision = ToolDecision(response.val)])
    ELSE IF IsException(response.exc)
    THEN Ok([st EXCEPT !.tool_decision = "llm_tool",
                       !.error = "Router error: " \o response.exc])
    ELSE Raise(response.exc, st)

\* Mutant: the search node passes the provider's result on with the LLM
\* node's tags.
GoogleToolNode_LlmTags(st, ret) ==
    IF ret.exc = ""
    THEN Ok([st EXCEPT !.result =
                DictSet(DictSet(ret.val, "source", "OpenAI LLM"),
                        "routing_decision", "llm_tool")])
    ELSE IF IsException(ret.exc)
    THEN Ok([st EXCEPT !.result =
                [ query |-> st.query,
                  answer |-> "Google search failed: " \o ret.exc,
                  source |-> "Google Search (Error)",
                  error |-> ret.exc ]])
    ELSE Raise(ret.exc, st)

\* _google_tool_node(state), `ret` being what google_searcher.search
\* returned or raised.
GoogleToolNode(st, ret) ==
    IF ret.exc = ""
    THEN Ok([st EXCEPT !.result =
                DictSet(DictSet(ret.val, "source", "Google Search"),
                        "routing_decision", "google_tool")])
    ELSE IF IsException(ret.exc)
    THEN Ok([st EXCEPT !.result =
                [ query |-> st.query,
                  answer |-> "Google search failed: " \o ret.exc,
                  source |-> "Google Search (Error)",
                  error |-> ret.exc ]])
    ELSE Raise(ret.exc, st)

\* _llm_tool_node(state), `ret` being what llm_client.query returned or
\* raised.
LlmToolNode(st, ret) ==
    IF ret.exc = ""
    THEN Ok([st EXCEPT !.result =
                DictSet(DictSet(ret.val, "source", "OpenAI LLM"),
                        "routing_decision", "llm_tool")])
    ELSE IF IsException(ret.exc)
    THEN Ok([st EXCEPT !.result =
                [ query |-> st.query,
                  answer |-> "LLM query failed: " \o ret.exc,
                  source |-> "OpenAI LLM (Error)",
                  error |-> ret.exc ]])
    ELSE Raise(ret.exc, st)

\* _route_decision(state): the key of the conditional edge.
RouteDecision(st) ==
    IF st.tool_decision = "google_tool" THEN "google_tool"
    ELSE IF st.tool_decision = "llm_tool" THEN "llm_tool"
    ELSE "error"

\* process_query, `except Exception as e`: the result when graph.invoke
\* raised.
GraphErrorResult(e, q) ==
    [ query |-> q,
      answer |-> "LangGraph processing failed: " \o e,
      source |-> "LangGraph Router (Error)",
      error |-> e,
      routing_method |-> "LangGraph LLM Router" ]

\* process_query after graph.invoke returned final_state: the result of the
\* state, or the synthetic one when that is empty, with the routing
\* information added.
GraphResult(final_state, q) ==
    LET result0 == IF final_state.result = EmptyDict
                   THEN [ query |-> q,
                          answer |-> "No result generated",
                          source |-> "LangGraph Router",
                          error |-> "No result in final state" ]
                   ELSE final_state.result
    IN  DictSet(DictSet(result0, "routing_method", "LangGraph LLM Router"),
                "tool_decision", final_state.tool_decision)

\* Mutant: a router state that carries an error is reported as the decision
\* 'error'.
RoutingExplanation_ErrorDecision(q, out) ==
    IF out.exc = "" /\ out.val.error = ""
    THEN [ query |-> q,
           tool_decision |-> out.val.tool_decision,
           routing_method |-> "LangGraph LLM Router",
           error |-> out.val.error ]
    ELSE [ query |-> q,
           tool_decision |-> "error",
           routing_method |-> "LangGraph LLM Router",
           error |-> IF out.exc = "" THEN out.val.error ELSE out.exc ]

\* get_routing_explanation: what it returns for the router node's outcome.
RoutingExplanation(q, out) ==
    IF out.exc = ""
    THEN [ query |-> q,
           tool_decision |-> out.val.tool_decision,
           routing_method |-> "LangGraph LLM Router",
           error |-> out.val.error ]
    ELSE [ query |-> q,
           tool_decision |-> "error",
           routing_method |-> "LangGraph LLM Router",
           error |-> out.exc ]

\* What self.llm.invoke can do: reply with a text, or raise (the network, the
\* credentials, a timeout; Ctrl-C while it waits).
ModelReplies ==
    { "google_tool", "llm_tool", "search_tool", "I think google search is best",
      "GOOGLE", "use reasoning/explain", "banana", "", " Google_Tool\n",
      "LLM_TOOL", "google or llm", "Explain: search" }

ModelFailures == {"ConnectionError", "TimeoutError", "KeyboardInterrupt"}

ModelResponses ==
    { Ok(content) : content \in ModelReplies } \cup
    { Raise(e, "") : e \in ModelFailures }

\* What graph.invoke itself can raise, outside the nodes.
GraphFaults == {"RuntimeError"}

\* The events a node leaves in the trace: the node, with the state it was
\* given and the state it returned, then the call it made, with its argument
\* and what came back.
NodeEvents(node, out, call, ret) ==
    << [call |-> node, arg |-> state, raised |-> out.exc, returned |-> out.val],
       [call |-> call, arg |-> state.query, raised |-> ret.exc, returned |-> ret.val] >>

\* graph.invoke after a node: the node's state is the graph's state; an
\* exception leaves graph.invoke and reaches process_query's handler, which
\* catches the ones derived from Exception.
AfterNode(out, next) ==
    IF out.exc = ""
    THEN /\ state' = out.val
         /\ pc' = next
         /\ UNCHANGED <<result, escaped>>
    ELSE IF IsException(out.exc)
    THEN /\ result' = GraphErrorResult(out.exc, query)
         /\ pc' = "lg_returned"
         /\ UNCHANGED <<state, escaped>>
    ELSE /\ escaped' = out.exc
         /\ pc' = "lg_raised"
         /\ UNCHANGED <<state, result>>

\* LangGraphRouter.process_query(q) is entered and builds initial_state.
LGProcessQuery(q) ==
    /\ pc = "idle"
    /\ pc' = "lg_invoke"
    /\ query' = q
    /\ state' = InitialState(q)
    /\ result' = EmptyDict
    /\ escaped' = ""
    /\ trace' = <<>>
    /\ UNCHANGED <<classifier, classification, explanation, query_type>>

\* self.graph.invoke(initial_state) raises before a node has run.
LGInvokeRaises(e) ==
    /\ pc = "lg_invoke"
    /\ trace' = Append(trace, [call |-> "graph.invoke", arg |-> state, raised |-> e,
                                returned |-> state])
    /\ result' = GraphErrorResult(e, query)
    /\ pc' = "lg_returned"
    /\ UNCHANGED <<classifier, query, classification, explanation, query_type,
                   escaped, state>>

\* The entry point: the router node runs on the initial state.
LGRouterNode(response) ==
    /\ pc = "lg_invoke"
    /\ LET out == RouterNode(state, response)
       IN  /\ trace' = trace \o NodeEvents("_router_node", out, "llm.invoke", response)
           /\ AfterNode(out, "lg_route")
    /\ UNCHANGED <<classifier, query, classification, explanation, query_type>>

\* The conditional edge out of the router: _route_decision names the next
\* node, 'error' ends the graph.
LGRouteDecision ==
    /\ pc = "lg_route"
    /\ pc' = CASE RouteDecision(state) = "google_tool" -> "lg_google_tool"
               [] RouteDecision(state) = "llm_tool" -> "lg_llm_tool"
               [] OTHER -> "lg_end"
    /\ UNCHANGED <<classifier, query, classification, explanation, query_type,
                   result, escaped, trace, state>>

\* Mutant: the edge out of google_tool leads to llm_tool instead of END.
LGGoogleToolNode_EdgeToLlmTool(outcome) ==
    /\ pc = "lg_google_tool"
    /\ LET ret == GoogleSearcherSearch(state.query, outcome)
           out == GoogleToolNode(state, ret)
       IN  /\ trace' = trace \o NodeEvents("_google_tool_node", out,
                                           "google_searcher.search", ret)
           /\ AfterNode(out, "lg_llm_tool")
    /\ UNCHANGED <<classifier, query, classification, explanation, query_type>>

\* The google_tool node runs, then the graph ends.
LGGoogleToolNode(outcome) ==
    /\ pc = "lg_google_tool"
    /\ LET ret == GoogleSearcherSearch(state.query, outcome)
           out == GoogleToolNode(state, ret)
       IN  /\ trace' = trace \o NodeEvents("_google_tool_node", out,
                                           "google_searcher.search", ret)
           /\ AfterNode(out, "lg_end")
    /\ UNCHANGED <<classifier, query, classification, explanation, query_type>>

\* The llm_tool node runs, then the graph ends.
LGLlmToolNode(outcome) ==
    /\ pc = "lg_llm_tool"
    /\ LET ret == LLMClientQuery(state.query, outcome)
           out == LlmToolNode(state, ret)
       IN  /\ trace' = trace \o NodeEvents("_llm_tool_node", out,
                                           "llm_client.query", ret)
           /\ AfterNode(out, "lg_end")
    /\ UNCHANGED <<classifier, query, classification, explanation, query_type>>

\* graph.invoke has returned final_state; process_query returns its result.
LGReturn ==
    /\ pc = "lg_end"
    /\ result' = GraphResult(state, query)
    /\ pc' = "lg_returned"
    /\ UNCHANGED <<classifier, query, classification, explanation, query_type,
                   escaped, trace, state>>

\* get_routing_explanation(q) is entered and builds initial_state.
GetRoutingExplanationCall(q) ==
    /\ pc = "idle"
    /\ pc' = "re_router"
    /\ query' = q
    /\ state' = InitialState(q)
    /\ result' = EmptyDict
    /\ escaped' = ""
    /\ trace' = <<>>
    /\ UNCHANGED <<classifier, classification, explanation, query_type>>

\* router_state = self._router_node(initial_state), and the return.
RERouterNode(response) ==
    /\ pc = "re_router"
    /\ LET out == RouterNode(state, response)
       IN  /\ trace' = trace \o NodeEvents("_router_node", out, "llm.invoke", response)
           /\ IF out.exc = "" \/ IsException(out.exc)
              THEN /\ result' = RoutingExplanation(query, out)
                   /\ state' = out.val
                   /\ pc' = "re_returned"
                   /\ UNCHANGED escaped
              ELSE /\ escaped' = out.exc
                   /\ pc' = "re_raised"
                   /\ UNCHANGED <<state, result>>
    /\ UNCHANGED <<classifier, query, classification, explanation, query_type>>

\* The caller has the result (or the exception) and asks again.
LGFinish ==
    /\ pc \in {"lg_returned", "lg_raised", "re_returned", "re_raised"}
    /\ pc' = "idle"
    /\ query' = ""
    /\ state' = NoState
    /\ result' = EmptyDict
    /\ escaped' = ""
    /\ trace' = <<>>
    /\ UNCHANGED <<classifier, classification, explanation, query_type>>

(***************************************************************************)
(* GoogleSearcher (google_search.py), inside the provider                  *)
(***************************************************************************)

\* str.startswith
StartsWith(s, prefix) ==
    Len(s) >= Len(prefix) /\ SubSeq(s, 1, Len(prefix)) = prefix

\* str.split(sep) with a separator: the pieces between the occurrences of
\* sep, from the left.
RECURSIVE SplitOn(_, _)
SplitOn(s, sep) ==
    LET hits == { i \in 1..(Len(s) - Len(sep) + 1) : SubSeq(s, i, i + Len(sep) - 1) = sep }
    IN  IF hits = {} THEN <<s>>
        ELSE LET i == CHOOSE h \in hits : \A g \in hits : h <= g
             IN  <<SubSeq(s, 1, i - 1)>> \o SplitOn(SubSeq(s, i + Len(sep), Len(s)), sep)

\* The default of search's parameter num_results.
num_results == 5

\* What requests.get followed by raise_for_status can do: give the response,
\* or raise.  SSLError, HTTPError, ConnectionError and Timeout derive from
\* RequestException; UnicodeError does not; KeyboardInterrupt is Ctrl-C
\* while the request waits.
RequestExceptions == {"SSLError", "HTTPError", "ConnectionError", "Timeout"}
HttpOutcomes == {"ok"} \cup RequestExceptions \cup {"UnicodeError", "KeyboardInterrupt"}

\* GoogleSearcher._make_request, `first` and `second` being what the request
\* with and without SSL verification does, `page` the page served: the
\* response (its page) in <<...>>, None as <<>>, or the exception that leaves.
GoogleMakeRequest(first, second, page) ==
    IF first = "ok" THEN Ok(<<page>>)
    ELSE IF first = "SSLError"
    THEN IF second = "ok" THEN Ok(<<page>>)
         ELSE IF second \in RequestExceptions THEN Ok(<<>>)
         ELSE Raise(second, <<>>)
    ELSE IF first \in RequestExceptions THEN Ok(<<>>)
    ELSE Raise(first, <<>>)

\* GoogleSearcher._extract_featured_snippet: page.featured holds the texts
\* of the elements the selectors find, in the order they are visited.
RECURSIVE FeaturedLoop(_, _)
FeaturedLoop(texts, i) ==
    IF i > Len(texts) THEN <<>>
    ELSE IF texts[i] # "" /\ Len(texts[i]) > 20 THEN <<texts[i]>>
    ELSE FeaturedLoop(texts, i + 1)

ExtractFeaturedSnippet(page) == FeaturedLoop(page.featured, 1)

\* GoogleSearcher._extract_regular_results, the loop over the containers: a
\* container has the href of its link (c.link, <<>> if it has none) and the
\* text of its snippet element (c.snippet, <<>> if it has none).
RECURSIVE ContainerLoop(_, _, _)
ContainerLoop(containers, i, acc) ==
    IF i > Len(containers) THEN acc
    ELSE LET c == containers[i]
             with_snippet(a) ==
                 IF c.snippet # <<>> /\ c.snippet[1] # "" /\ Len(c.snippet[1]) > 10
                 THEN [a EXCEPT !.snippets = Append(@, c.snippet[1])]
                 ELSE a
         IN  IF c.link = <<>>
             THEN ContainerLoop(containers, i + 1, with_snippet(acc))
             ELSE IF StartsWith(c.link[1], "/url?q=")
             THEN ContainerLoop(containers, i + 1,
                      with_snippet([acc EXCEPT !.urls =
                          Append(@, SplitOn(SplitOn(c.link[1], "/url?q=")[2], "&")[1])]))
             ELSE IF StartsWith(c.link[1], "/search?")
             THEN ContainerLoop(containers, i + 1, acc)
             ELSE ContainerLoop(containers, i + 1,
                      with_snippet([acc EXCEPT !.urls = Append(@, c.link[1])]))

\* GoogleSearcher._extract_regular_results
ExtractRegularResults(page, n) ==
    ContainerLoop(SubSeq(page.containers, 1, IF Len(page.containers) < n
                                             THEN Len(page.containers) ELSE n),
                  1, [urls |-> <<>>, snippets |-> <<>>])

\* The fallback answer of _extract_search_results.
FallbackAnswer(search_query) ==
    "I couldn't find specific results for '" \o search_query \o
    "'. This might be due to Google's search restrictions or network issues. " \o
    "You might want to try a different search engine or rephrase your question."

\* GoogleSearcher._extract_search_results
ExtractSearchResults(page, search_query, n) ==
    LET featured_snippet == ExtractFeaturedSnippet(page)
        search_results == ExtractRegularResults(page, n)
        base == [ query |-> search_query, answer |-> "",
                  urls |-> search_results.urls, snippets |-> search_results.snippets ]
    IN  IF featured_snippet # <<>>
        THEN DictSet([base EXCEPT !.answer = featured_snippet[1]],
                     "answer_type", "featured_snippet")
        ELSE IF search_results.snippets # <<>>
        THEN DictSet([base EXCEPT !.answer = search_results.snippets[1]],
                     "answer_type", "first_result")
        ELSE DictSet([base EXCEPT !.answer = FallbackAnswer(search_query)],
                     "answer_type", "fallback")

\* Mutant: search without its try / except.
GoogleSearcher_search_NoHandler(search_query, env) ==
    LET response == GoogleMakeRequest(env.first, env.second, env.page)
    IN  IF response.exc # ""
        THEN Raise(response.exc, EmptyDict)
        ELSE IF response.val = <<>>
        THEN Ok(GoogleCreateErrorResult("Failed to get search results"))
        ELSE Ok(ExtractSearchResults(response.val[1], search_query, num_results))

\* GoogleSearcher.search(query), env saying what the network does and which
\* page is served: the result it returns, or the exception that leaves it.
GoogleSearcher_search(search_query, env) ==
    LET response == GoogleMakeRequest(env.first, env.second, env.page)
    IN  IF response.exc # ""
        THEN IF IsException(response.exc)
             THEN Ok(GoogleCreateErrorResult("Search failed: " \o response.exc))
             ELSE Raise(response.exc, EmptyDict)
        ELSE IF response.val = <<>>
        THEN Ok(GoogleCreateErrorResult("Failed to get search results"))
        ELSE Ok(ExtractSearchResults(response.val[1], search_query, num_results))

(***************************************************************************)
(* LLMClient (llm_client.py), inside the provider                          *)
(***************************************************************************)

\* JSON values as Python holds them, tagged with their type.
JDict(d) == [t |-> "dict", v |-> d]
JList(l) == [t |-> "list", v |-> l]
JStr(s)  == [t |-> "str",  v |-> s]
JNum(n)  == [t |-> "num",  v |-> n]
JNull    == [t |-> "null", v |-> 0]

\* bool(x): None, 0, "" and empty containers are false.
Truthy(j) ==
    CASE j.t = "dict" -> DOMAIN j.v # {}
      [] j.t = "list" -> Len(j.v) > 0
      [] j.t = "str"  -> j.v # ""
      [] j.t = "num"  -> j.v # 0
      [] OTHER        -> FALSE

\* x.get(key, default): only a dict has get.
PyGet(j, key, default) ==
    IF j.t = "dict"
    THEN Ok(IF key \in DOMAIN j.v THEN j.v[key] ELSE default)
    ELSE Raise("AttributeError", JNull)

\* x[0] of a value that is not false.
PyFirst(j) ==
    CASE j.t = "list" -> Ok(j.v[1])
      [] j.t = "str"  -> Ok(JStr(SubSeq(j.v, 1, 1)))
      [] j.t = "dict" -> Raise("KeyError", JNull)
      [] OTHER        -> Raise("TypeError", JNull)

\* x.strip(): only a str has strip.
PyStrip(j) ==
    IF j.t = "str" THEN Ok(JStr(Strip(j.v))) ELSE Raise("AttributeError", JNull)

\* What requests.post, raise_for_status and response.json() can do.
LlmHttpOutcomes ==
    {"ok", "HTTPError 429", "HTTPError 500", "ConnectionError", "Timeout",
     "JSONDecodeError", "UnicodeError", "KeyboardInterrupt"}

\* LLMClient._make_api_request: the parsed body in <<...>>, None as <<>>, or
\* the exception that leaves.
LlmMakeApiRequest(http, body) ==
    IF http = "ok" THEN Ok(<<body>>)
    ELSE IF http \in {"HTTPError 429", "HTTPError 500", "ConnectionError", "Timeout",
                      "JSONDecodeError"}
    THEN Ok(<<>>)
    ELSE Raise(http, <<>>)

\* LLMClient._process_response(response, original_prompt) with
\* self.total_tokens_used = total: the result it returns and the new
\* self.total_tokens_used.  An exception raised on the way is caught by its
\* own handler.
ProcessResponse(total, response, original_prompt) ==
    LET fail(e) == [ result |-> LLMCreateErrorResult("Failed to process response: " \o e),
                     total |-> total ]
        choices == PyGet(response, "choices", JList(<<>>))
    IN  IF choices.exc # "" THEN fail(choices.exc)
        ELSE IF ~Truthy(choices.val)
        THEN [ result |-> LLMCreateErrorResult("No response choices available"),
               total |-> total ]
        ELSE LET first == PyFirst(choices.val)
                 message == IF first.exc = ""
                            THEN PyGet(first.val, "message", JDict(EmptyDict)) ELSE first
                 content == IF message.exc = ""
                            THEN PyGet(message.val, "content", JStr("")) ELSE message
                 answer == IF content.exc = "" THEN PyStrip(content.val) ELSE content
             IN  IF answer.exc # "" THEN fail(answer.exc)
                 ELSE IF ~Truthy(answer.val)
                 THEN [ result |-> LLMCreateErrorResult("Empty response from LLM"),
                        total |-> total ]
                 ELSE LET usage == PyGet(response, "usage", JDict(EmptyDict))
                          tokens_used == IF usage.exc = ""
                                         THEN PyGet(usage.val, "total_tokens", JNum(0))
                                         ELSE usage
                      IN  IF tokens_used.exc # "" THEN fail(tokens_used.exc)
                          ELSE IF tokens_used.val.t # "num" THEN fail("TypeError")
                          ELSE LET finish_reason ==
                                       PyGet(first.val, "finish_reason", JStr("unknown"))
                                   new_total == total + tokens_used.val.v
                               IN  [ result |->
                                       [ query |-> original_prompt,
                                         answer |-> answer.val.v,
                                         model |-> "gpt-3.5-turbo",
                                         tokens_used |-> tokens_used.val.v,
                                         total_tokens_used |-> new_total,
                                         finish_reason |-> finish_reason.val.v ],
                                     total |-> new_total ]

\* Mutant: a response that could not be processed is counted as one token.
LLMClient_query_CountsFailures(total, prompt, env) ==
    LET response == LlmMakeApiRequest(env.http, env.body)
    IN  IF response.exc # ""
        THEN IF IsException(response.exc)
             THEN [ ret |-> Ok(LLMCreateErrorResult("LLM query failed: " \o response.exc)),
                    total |-> total ]
             ELSE [ ret |-> Raise(response.exc, EmptyDict), total |-> total ]
        ELSE IF response.val = <<>> \/ ~Truthy(response.val[1])
        THEN [ ret |-> Ok(LLMCreateErrorResult("Failed to get response from LLM")),
               total |-> total ]
        ELSE LET processed == ProcessResponse(total, response.val[1], prompt)
             IN  [ ret |-> Ok(processed.result),
                   total |-> IF "error" \in DOMAIN processed.result
                             THEN total + 1 ELSE processed.total ]

\* LLMClient.query(prompt) with self.total_tokens_used = total, env saying
\* what the network does and which body is served: what it returns or
\* raises, and the new self.total_tokens_used.
LLMClient_query(total, prompt, env) ==
    LET response == LlmMakeApiRequest(env.http, env.body)
    IN  IF response.exc # ""
        THEN IF IsException(response.exc)
             THEN [ ret |-> Ok(LLMCreateErrorResult("LLM query failed: " \o response.exc)),
                    total |-> total ]
             ELSE [ ret |-> Raise(response.exc, EmptyDict), total |-> total ]
        ELSE IF response.val = <<>> \/ ~Truthy(response.val[1])
        THEN [ ret |-> Ok(LLMCreateErrorResult("Failed to get response from LLM")),
               total |-> total ]
        ELSE LET processed == ProcessResponse(total, response.val[1], prompt)
             IN  [ ret |-> Ok(processed.result), total |-> processed.total ]

\* Pages Google can serve, as the selectors of the extraction see them: an
\* empty body; a consent page (only an internal link and short texts); a
\* page with a knowledge panel; a page of results; a page of more results
\* than num_results.
EmptyPage == [featured |-> <<>>, containers |-> <<>>]
ConsentPage ==
    [ featured |-> <<"Sign in">>,
      containers |-> << [link |-> <<"/search?q=consent">>,
                         snippet |-> <<"Before you continue to Google">>],
                        [link |-> <<>>, snippet |-> <<"Cookies">>] >> ]
PanelPage ==
    [ featured |-> <<"Paris", "Paris is the capital and most populous city of France.">>,
      containers |-> <<>> ]
ResultsPage ==
    [ featured |-> <<>>,
      containers |-> << [link |-> <<"/url?q=https://example.com/a&sa=U">>,
                         snippet |-> <<"Paris is the capital of France.">>],
                        [link |-> <<"/search?q=more">>,
                         snippet |-> <<"More results like this one">>],
                        [link |-> <<"https://example.org/">>, snippet |-> <<>>] >> ]
LongPage ==
    [ featured |-> <<>>,
      containers |-> [ i \in 1..(num_results + 1) |->
                         [link |-> <<"https://example.com/">>,
                          snippet |-> <<"A result of the long page">>] ] ]
Pages == {EmptyPage, ConsentPage, PanelPage, ResultsPage, LongPage}

\* What the network and Google do during one search.  The second request is
\* made only after an SSLError, the page is read only from a response.
GoogleEnvs ==
    { env \in [first : HttpOutcomes, second : HttpOutcomes, page : Pages] :
        /\ env.first # "SSLError" => env.second = "ok"
        /\ (env.first # "ok" /\ ~(env.first = "SSLError" /\ env.second = "ok"))
               => env.page = EmptyPage }

\* Bodies the API can answer with, once parsed by response.json().
Choice(content) == JDict([message |-> JDict([content |-> content])])
LlmBodies ==
    << \* a completion with its usage
       JDict([choices |-> JList(<<JDict([message |-> JDict([content |-> JStr(" Paris. ")]),
                                         finish_reason |-> JStr("stop")])>>),
              usage |-> JDict([total_tokens |-> JNum(2)])]),
       JDict([choices |-> JList(<<JDict([message |-> JDict([content |-> JStr("42")]),
                                         finish_reason |-> JStr("length")])>>),
              usage |-> JDict([total_tokens |-> JNum(1)])]),
       \* a completion without usage and finish_reason
       JDict([choices |-> JList(<<Choice(JStr("42"))>>)]),
       \* nothing usable: null, {}, no choices, an error body, a blank answer
       JNull,
       JDict(EmptyDict),
       JDict([choices |-> JList(<<>>), usage |-> JDict([total_tokens |-> JNum(1)])]),
       JDict([error |-> JDict([message |-> JStr("insufficient_quota")])]),
       JDict([choices |-> JList(<<Choice(JStr(" \n"))>>),
              usage |-> JDict([total_tokens |-> JNum(1)])]),
       \* not of the expected shape
       JList(<<JNum(1)>>),
       JDict([choices |-> JList(<<Choice(JNull)>>)]),
       JDict([choices |-> JList(<<Choice(JStr("42"))>>), usage |-> JNull]),
       JDict([choices |-> JList(<<Choice(JStr("42"))>>),
              usage |-> JDict([total_tokens |-> JStr("12")])]) >>

\* The bodies of LlmBodies that hold a completion.
CompletionBodies == 1..3

\* The bound on total_tokens_used.
MaxTotalTokens == 4

\* google_searcher.search(q) is called and returns or raises.
GoogleSearcherSearchCall(q, env) ==
    /\ pc = "idle"
    /\ LET ret == GoogleSearcher_search(q, env)
       IN  /\ pc' = IF ret.exc = "" THEN "search_returned" ELSE "search_raised"
           /\ result' = ret.val
           /\ escaped' = ret.exc
           /\ trace' = <<[call |-> "google_searcher.search", arg |-> q,
                          raised |-> ret.exc, returned |-> ret.val, env |-> env]>>
    /\ query' = q
    /\ UNCHANGED <<classifier, classification, explanation, query_type, state,
                   total_tokens_used>>

\* llm_client.query(q) is called and returns or raises.
LLMClientQueryCall(q, env) ==
    /\ pc = "idle"
    /\ LET out == LLMClient_query(total_tokens_used, q, env)
       IN  /\ out.total <= MaxTotalTokens
           /\ pc' = IF out.ret.exc = "" THEN "query_returned" ELSE "query_raised"
           /\ result' = out.ret.val
           /\ escaped' = out.ret.exc
           /\ total_tokens_used' = out.total
           /\ trace' = <<[call |-> "llm_client.query", arg |-> q,
                          raised |-> out.ret.exc, returned |-> out.ret.val,
                          env |-> env]>>
    /\ query' = q
    /\ UNCHANGED <<classifier, classification, explanation, query_type, state>>

\* llm_client.reset_usage_stats()
ResetUsageStats ==
    /\ pc = "idle"
    /\ total_tokens_used' = 0
    /\ UNCHANGED <<classifier, pc, query, classification, explanation, query_type,
                   result, escaped, trace, state>>

\* The caller has the result (or the exception) and goes on.
ProviderReturn ==
    /\ pc \in {"search_returned", "search_raised", "query_returned", "query_raised",
              "test_returned", "test_raised"}
    /\ pc' = "idle"
    /\ query' = ""
    /\ result' = EmptyDict
    /\ escaped' = ""
    /\ trace' = <<>>
    /\ UNCHANGED <<classifier, classification, explanation, query_type, state,
                   total_tokens_used>>

(***************************************************************************)
(* Rate limiting of the two clients (google_search.py, llm_client.py).     *)
(* Time is counted in whole seconds.                                       *)
(***************************************************************************)

\* self.min_delay of each client.
min_delay == [google |-> 1, llm |-> 5]

\* The bounds on the clock and on the seconds one HTTP request takes.
MaxTime == 10
MaxLatency == 1

\* _respect_rate_limit at time t with self.last_request_time = last: the
\* time at which it returns, having slept for the rest of the delay if less
\* than min_delay has passed; it stores that time as last_request_time.
RespectRateLimit(t, last, delay) ==
    LET current_time == t
        time_since_last == current_time - last
    IN  IF time_since_last < delay
        THEN current_time + (delay - time_since_last)
        ELSE current_time

\* The two most recent entries of a log.
LastTwo(log) == IF Len(log) <= 2 THEN log ELSE SubSeq(log, Len(log) - 1, Len(log))

\* GoogleSearcher.search(q) on the clock: the rate limit, then the request
\* of _make_request, which takes d1 seconds, and after an SSLError the
\* second request, without verification, which takes d2.
TimedSearch(q, env, d1, d2) ==
    /\ GoogleSearcherSearchCall(q, env)
    /\ LET start == RespectRateLimit(now, last_request_time.google, min_delay.google)
           retried == env.first = "SSLError"
           starts == IF retried THEN <<start, start + d1>> ELSE <<start>>
           end == start + d1 + (IF retried THEN d2 ELSE 0)
       IN  /\ ~retried => d2 = 0
           /\ end <= MaxTime
           /\ now' = end
           /\ last_request_time' = [last_request_time EXCEPT !.google = start]
           /\ request_log' = [request_log EXCEPT !.google = LastTwo(@ \o starts)]

\* LLMClient.query(q) on the clock: the rate limit, then the request of
\* _make_api_request, which takes d seconds.
TimedQuery(q, env, d) ==
    /\ LLMClientQueryCall(q, env)
    /\ LET start == RespectRateLimit(now, last_request_time.llm, min_delay.llm)
       IN  /\ start + d <= MaxTime
           /\ now' = start + d
           /\ last_request_time' = [last_request_time EXCEPT !.llm = start]
           /\ request_log' = [request_log EXCEPT !.llm = LastTwo(Append(@, start))]

\* LLMClient.test_connection(): the request of _make_api_request is made at
\* once; the method returns whether a response came back, False for an
\* Exception, and lets any other exception pass.
TestConnection(http, d) ==
    /\ pc = "idle"
    /\ now + d <= MaxTime
    /\ LET response == LlmMakeApiRequest(http, LlmBodies[1])
       IN  IF response.exc = ""
           THEN /\ pc' = "test_returned"
                /\ result' = [connected |-> response.val # <<>>]
                /\ escaped' = ""
           ELSE IF IsException(response.exc)
           THEN /\ pc' = "test_returned"
                /\ result' = [connected |-> FALSE]
                /\ escaped' = ""
           ELSE /\ pc' = "test_raised"
                /\ result' = EmptyDict
                /\ escaped' = response.exc
    /\ trace' = <<[call |-> "llm_client.test_connection", arg |-> "",
                   raised |-> escaped', returned |-> result',
                   env |-> [http |-> http, body |-> LlmBodies[1], b |-> 1]]>>
    /\ now' = now + d
    /\ request_log' = [request_log EXCEPT !.llm = LastTwo(Append(@, now))]
    /\ UNCHANGED <<classifier, query, classification, explanation, query_type,
                   state, total_tokens_used, last_request_time>>

\* A second passes while the caller is between two operations.
Tick ==
    /\ pc = "idle"
    /\ now < MaxTime
    /\ now' = now + 1
    /\ UNCHANGED <<classifier, pc, query, classification, explanation, query_type,
                   result, escaped, trace, state, total_tokens_used,
                   last_request_time, request_log>>

(***************************************************************************)
(* Specifications                                                          *)
(***************************************************************************)

\* The orchestrator: any sequence of process_query calls.
Init == Constructed /\ query = ""

Next ==
    \/ \E q \in Queries : ProcessQuery(q) /\ UNCHANGED <<tokens_since_reset, now, last_request_time, request_log, lines_read, calls_made, first_call, state, total_tokens_used>>
    \/ PQClassify /\ UNCHANGED <<tokens_since_reset, now, last_request_time, request_log, lines_read, calls_made, first_call, state, total_tokens_used>>
    \/ \E outcome \in ProviderOutcomes : PQRoute(outcome) /\ UNCHANGED <<tokens_since_reset, now, last_request_time, request_log, lines_read, calls_made, first_call, state, total_tokens_used>>
    \/ PQFinish /\ UNCHANGED <<tokens_since_reset, now, last_request_time, request_log, lines_read, calls_made, first_call, state, total_tokens_used>>

Spec == Init /\ [][Next]_vars

\* The classifier as a function: the input is any query, and both public
\* methods are applied to it.
InitClassifier == Constructed /\ query \in Queries

NextClassifier ==
    \/ ClassifyQueryCall(query) /\ UNCHANGED <<tokens_since_reset, now, last_request_time, request_log, lines_read, calls_made, first_call, state, total_tokens_used>>
    \/ GetClassificationExplanationCall(query) /\ UNCHANGED <<tokens_since_reset, now, last_request_time, request_log, lines_read, calls_made, first_call, state, total_tokens_used>>
    \/ ClientReturn /\ UNCHANGED <<tokens_since_reset, now, last_request_time, request_log, lines_read, calls_made, first_call, state, total_tokens_used>>

SpecClassifier == InitClassifier /\ [][NextClassifier]_vars

\* A session of one classifier: any sequence of calls of its two public
\* methods on the repository's example queries, with the first
\* classify_query call remembered (first_call.others: another query was
\* classified, or an explanation asked for, since).
RecordFirstCall ==
    first_call' =
        IF ~first_call.called
        THEN [called |-> TRUE, query |-> query', ret |-> classification', others |-> FALSE]
        ELSE [first_call EXCEPT !.others = @ \/ query' # first_call.query]

RecordOtherCall ==
    first_call' = [first_call EXCEPT !.others = first_call.called]

NextSession ==
    \/ \E q \in Examples : ClassifyQueryCall(q) /\ RecordFirstCall /\ UNCHANGED <<tokens_since_reset, now, last_request_time, request_log, lines_read, calls_made, state, total_tokens_used>>
    \/ \E q \in Examples : GetClassificationExplanationCall(q) /\ RecordOtherCall /\ UNCHANGED <<tokens_since_reset, now, last_request_time, request_log, lines_read, calls_made, state, total_tokens_used>>
    \/ ClientReturn /\ UNCHANGED <<tokens_since_reset, now, last_request_time, request_log, lines_read, calls_made, first_call, state, total_tokens_used>>

SpecSession == Init /\ [][NextSession]_vars

\* The two routers side by side: any sequence of process_query calls of the
\* rule-based orchestrator and of the LangGraph router, and of
\* get_routing_explanation, on the queries of the repository's tests.
RouterQueries ==
    Examples \cup
    { "", "Hello, how are you?", "Explain how machine learning works",
      "What is the current weather in New York?" }

NextRouters ==
    \/ \E q \in RouterQueries : ProcessQuery(q) /\ UNCHANGED <<tokens_since_reset, now, last_request_time, request_log, lines_read, calls_made, first_call, state, total_tokens_used>>
    \/ PQClassify /\ UNCHANGED <<tokens_since_reset, now, last_request_time, request_log, lines_read, calls_made, first_call, state, total_tokens_used>>
    \/ \E outcome \in ProviderOutcomes : PQRoute(outcome) /\ UNCHANGED <<tokens_since_reset, now, last_request_time, request_log, lines_read, calls_made, first_call, state, total_tokens_used>>
    \/ PQFinish /\ UNCHANGED <<tokens_since_reset, now, last_request_time, request_log, lines_read, calls_made, first_call, state, total_tokens_used>>
    \/ \E q \in RouterQueries : LGProcessQuery(q) /\ UNCHANGED <<tokens_since_reset, now, last_request_time, request_log, lines_read, calls_made, first_call, total_tokens_used>>
    \/ \E e \in GraphFaults : LGInvokeRaises(e) /\ UNCHANGED <<tokens_since_reset, now, last_request_time, request_log, lines_read, calls_made, first_call, total_tokens_used>>
    \/ \E response \in ModelResponses : LGRouterNode(response) /\ UNCHANGED <<tokens_since_reset, now, last_request_time, request_log, lines_read, calls_made, first_call, total_tokens_used>>
    \/ LGRouteDecision /\ UNCHANGED <<tokens_since_reset, now, last_request_time, request_log, lines_read, calls_made, first_call, total_tokens_used>>
    \/ \E outcome \in ProviderOutcomes : LGGoogleToolNode(outcome) /\ UNCHANGED <<tokens_since_reset, now, last_request_time, request_log, lines_read, calls_made, first_call, total_tokens_used>>
    \/ \E outcome \in ProviderOutcomes : LGLlmToolNode(outcome) /\ UNCHANGED <<tokens_since_reset, now, last_request_time, request_log, lines_read, calls_made, first_call, total_tokens_used>>
    \/ LGReturn /\ UNCHANGED <<tokens_since_reset, now, last_request_time, request_log, lines_read, calls_made, first_call, total_tokens_used>>
    \/ \E q \in RouterQueries : GetRoutingExplanationCall(q) /\ UNCHANGED <<tokens_since_reset, now, last_request_time, request_log, lines_read, calls_made, first_call, total_tokens_used>>
    \/ \E response \in ModelResponses : RERouterNode(response) /\ UNCHANGED <<tokens_since_reset, now, last_request_time, request_log, lines_read, calls_made, first_call, total_tokens_used>>
    \/ LGFinish /\ UNCHANGED <<tokens_since_reset, now, last_request_time, request_log, lines_read, calls_made, first_call, total_tokens_used>>

SpecRouters == Init /\ [][NextRouters]_vars

\* The history of the usage counter: a result LLMClient.query returned
\* without 'error' adds its tokens_used.
RecordTokens ==
    tokens_since_reset' =
        IF pc' = "query_returned" /\ "error" \notin DOMAIN result'
        THEN tokens_since_reset + result'.tokens_used
        ELSE tokens_since_reset

\* The two provider clients on their own: any sequence of searches, LLM
\* queries and resets of the usage statistics, under every behaviour of the
\* network and of the two services.
NextProviders ==
    \/ \E q \in RouterQueries, env \in GoogleEnvs :
           GoogleSearcherSearchCall(q, env) /\ UNCHANGED <<tokens_since_reset, now, last_request_time, request_log, lines_read, calls_made, first_call>>
    \/ \E q \in RouterQueries, http \in LlmHttpOutcomes, b \in 1..Len(LlmBodies) :
           /\ http # "ok" => b = 1
           /\ LLMClientQueryCall(q, [http |-> http, body |-> LlmBodies[b], b |-> b])
           /\ RecordTokens
           /\ UNCHANGED <<now, last_request_time, request_log, lines_read, calls_made, first_call>>
    \/ ResetUsageStats /\ tokens_since_reset' = 0
           /\ UNCHANGED <<now, last_request_time, request_log, lines_read, calls_made, first_call>>
    \/ ProviderReturn /\ UNCHANGED <<tokens_since_reset, now, last_request_time, request_log, lines_read, calls_made, first_call>>

SpecProviders == Init /\ [][NextProviders]_vars

\* The interactive loop: any sequence of lines typed at the prompt, Ctrl-C
\* and the end of the input included, under every behaviour of the
\* providers.
NextLoop ==
    \/ RunInteractiveMode /\ UNCHANGED <<tokens_since_reset, now, last_request_time, request_log, first_call, state, total_tokens_used>>
    \/ \E inp \in InputOutcomes : LoopInput(inp) /\ UNCHANGED <<tokens_since_reset, now, last_request_time, request_log, first_call, state, total_tokens_used>>
    \/ PQClassify /\ UNCHANGED <<tokens_since_reset, now, last_request_time, request_log, lines_read, calls_made, first_call, state, total_tokens_used>>
    \/ \E outcome \in ProviderOutcomes : PQRoute(outcome) /\ UNCHANGED <<tokens_since_reset, now, last_request_time, request_log, lines_read, calls_made, first_call, state, total_tokens_used>>
    \/ LoopDisplay /\ UNCHANGED <<tokens_since_reset, now, last_request_time, request_log, first_call, state, total_tokens_used>>
    \/ LoopFinish /\ UNCHANGED <<tokens_since_reset, now, last_request_time, request_log, first_call, state, total_tokens_used>>

SpecLoop == Init /\ [][NextLoop]_vars

\* The two clients on the clock: any sequence of searches, LLM queries and
\* connection tests, with seconds passing in between.  Of the network's
\* behaviours the ones that differ in the requests made are kept: a request
\* answered, refused for its certificate (and retried), timed out, refused
\* by the API, interrupted.
RateLimitQueries == {"What is machine learning?"}

RateLimitGoogleEnvs ==
    { env \in GoogleEnvs :
        /\ env.first \in {"ok", "SSLError", "Timeout", "KeyboardInterrupt"}
        /\ env.second \in {"ok", "Timeout"}
        /\ env.page \in {EmptyPage, ResultsPage}
        /\ (env.first = "ok" \/ (env.first = "SSLError" /\ env.second = "ok"))
               => env.page = ResultsPage }

RateLimitLlmEnvs ==
    { [http |-> http, body |-> LlmBodies[3], b |-> 3] :
        http \in {"ok", "HTTPError 429", "KeyboardInterrupt"} }

NextRateLimit ==
    \/ \E q \in RateLimitQueries, env \in RateLimitGoogleEnvs, d1, d2 \in 0..MaxLatency :
           TimedSearch(q, env, d1, d2) /\ UNCHANGED <<tokens_since_reset, lines_read, calls_made, first_call>>
    \/ \E q \in RateLimitQueries, env \in RateLimitLlmEnvs, d \in 0..MaxLatency :
           TimedQuery(q, env, d) /\ RecordTokens /\ UNCHANGED <<lines_read, calls_made, first_call>>
    \/ \E env \in RateLimitLlmEnvs, d \in 0..MaxLatency :
           TestConnection(env.http, d) /\ UNCHANGED <<tokens_since_reset, lines_read, calls_made, first_call>>
    \/ Tick /\ UNCHANGED <<tokens_since_reset, lines_read, calls_made, first_call>>
    \/ ProviderReturn /\ UNCHANGED <<tokens_since_reset, now, last_request_time, request_log, lines_read, calls_made, first_call>>

SpecRateLimit == Init /\ [][NextRateLimit]_vars

(***************************************************************************)
(* Claims                                                                  *)
(***************************************************************************)

\* What the claims say of a query: its normalized text, and the scores
\* written as counts.
Normalized(q) == Strip(Lower(q))

Matches(patterns, q) ==
    { i \in 1..Len(patterns) : ReSearch(patterns[i], q, FALSE) }

Occurring(keywords, q) == { k \in keywords : IsSubstring(k, q) }

StartsWithQuestionWord(q) ==
    /\ Split(q) # <<>>
    /\ Split(q)[1] \in {"what", "who", "when", "where", "which", "how"}

SearchScoreAsCounted(q) ==
    Cardinality(Occurring(QueryClassifierInit.search_keywords, q))
    + (IF StartsWithQuestionWord(q) THEN 1 ELSE 0)
    + 2 * Cardinality(Matches(factual_patterns, q))

LlmScoreAsCounted(q) ==
    Cardinality(Occurring(QueryClassifierInit.llm_keywords, q))
    + 2 * Cardinality(Matches(analytical_patterns, q))
    + (IF Len(Split(q)) > 5 THEN 1 ELSE 0)

MatchesMathPattern(q) ==
    \E i \in 1..Len(QueryClassifierInit.math_patterns) :
        ReSearch(QueryClassifierInit.math_patterns[i], Normalized(q), TRUE)

\* C1: a query whose lowercased, trimmed text matches a mathematical
\* pattern is classified 'llm' by classify_query, whatever its scores are.
C1_MathematicalIsLlm ==
    (pc = "classify_query" /\ MatchesMathPattern(query))
        => classification = Ok("llm")

\* C1 witness: classify_query has returned 'llm' for a mathematical query
\* whose search score is greater than its llm score.
C1_Witness ==
    /\ pc = "classify_query"
    /\ MatchesMathPattern(query)
    /\ SearchScoreAsCounted(Normalized(query)) > LlmScoreAsCounted(Normalized(query))
    /\ classification = Ok("llm")

\* C2: classify_query returns 'search' exactly when the query is not
\* mathematical and its search score is strictly greater than its llm score;
\* in every other case, every tie included, it returns 'llm'.
C2_SearchIffStrictlyGreater ==
    pc = "classify_query" =>
        LET q == Normalized(query)
            search_wins ==
                /\ ~MatchesMathPattern(query)
                /\ CalculateSearchScore(classifier, q).val > CalculateLlmScore(classifier, q).val
        IN  classification = Ok(IF search_wins THEN "search" ELSE "llm")

\* C2 witness: classify_query has returned 'llm' for a query that is not
\* mathematical and whose two scores are equal and not zero.
C2_Witness ==
    /\ pc = "classify_query"
    /\ ~MatchesMathPattern(query)
    /\ SearchScoreAsCounted(Normalized(query)) = LlmScoreAsCounted(Normalized(query))
    /\ SearchScoreAsCounted(Normalized(query)) > 0
    /\ classification = Ok("llm")

\* C3: classify_query never raises and returns 'search' or 'llm', also for
\* the empty string and for whitespace-only strings.
C3_TotalClosedDomain ==
    pc = "classify_query" =>
        /\ classification.exc = ""
        /\ classification.val \in {"search", "llm"}

\* C3 witness: classify_query has returned for a non-empty query made of
\* whitespace only, which has no first token.
C3_Witness ==
    /\ pc = "classify_query"
    /\ query # ""
    /\ Split(Normalized(query)) = <<>>
    /\ classification = Ok("llm")

\* C4: over any sequence of classify_query and
\* get_classification_explanation calls on one classifier, no call changes
\* the keyword sets or the pattern list, and classify_query(q) returns what
\* it returned the first time, whatever was classified in between.
C4_SameAnswerEveryTime ==
    /\ classifier = QueryClassifierInit
    /\ (pc = "classify_query" /\ first_call.called /\ query = first_call.query)
           => classification = first_call.ret

\* C4 witness: the query of the first classify_query call is classified
\* again after other calls were made, with the same result.
C4_Witness ==
    /\ pc = "classify_query"
    /\ first_call.called
    /\ first_call.others
    /\ query = first_call.query
    /\ classification = first_call.ret
    /\ classification.val = "search"

\* C5: the 'classification' field of get_classification_explanation(q) is
\* what classify_query(q) returns, also for a mathematical q whose reported
\* search score is greater than its reported llm score.
C5_ExplanationAgrees ==
    pc = "get_classification_explanation" =>
        /\ explanation.exc = ""
        /\ explanation.val.classification = ClassifyQuery(classifier, query).val

\* C5 witness: an explanation reports a mathematical query, a search score
\* greater than the llm score, and the classification 'llm'.
C5_Witness ==
    /\ pc = "get_classification_explanation"
    /\ explanation.val.is_mathematical
    /\ explanation.val.search_score > explanation.val.llm_score
    /\ explanation.val.classification = "llm"

\* C6: the search score of a normalized query is the number of distinct
\* search keywords occurring in it (each once, however often it occurs),
\* plus 1 if its first token is what/who/when/where/which/how, plus 2 for
\* each of the seven factual patterns that match; it is never negative.
C6_SearchScore ==
    pc = "get_classification_explanation" =>
        /\ explanation.val.search_score = SearchScoreAsCounted(Normalized(query))
        /\ explanation.val.search_score >= 0
        /\ Len(factual_patterns) = 7

\* C6 witness: a score made of all three parts, for a query in which a
\* search keyword occurs more than once.
C6_Witness ==
    /\ pc = "get_classification_explanation"
    /\ StartsWithQuestionWord(Normalized(query))
    /\ Matches(factual_patterns, Normalized(query)) # {}
    /\ \E k \in QueryClassifierInit.search_keywords :
           \E i, j \in 1..Len(Normalized(query)) :
               /\ i < j
               /\ j + Len(k) - 1 <= Len(Normalized(query))
               /\ SubSeq(Normalized(query), i, i + Len(k) - 1) = k
               /\ SubSeq(Normalized(query), j, j + Len(k) - 1) = k
    /\ explanation.val.search_score = SearchScoreAsCounted(Normalized(query))

\* C7: the llm score of a normalized query is the number of distinct llm
\* keywords occurring in it, plus 2 for each of the eight analytical patterns
\* that match, plus 1 if it has more than 5 tokens: 5 tokens get no bonus,
\* 6 tokens get it.
C7_LlmScore ==
    pc = "get_classification_explanation" =>
        LET q == Normalized(query)
            without_bonus ==
                Cardinality(Occurring(QueryClassifierInit.llm_keywords, q))
                + 2 * Cardinality(Matches(analytical_patterns, q))
        IN  /\ explanation.val.llm_score = LlmScoreAsCounted(q)
            /\ Len(Split(q)) = 5 => explanation.val.llm_score = without_bonus
            /\ Len(Split(q)) = 6 => explanation.val.llm_score = without_bonus + 1
            /\ Len(analytical_patterns) = 8

\* C7 witness: the score of a query of exactly 6 tokens in which an llm
\* keyword occurs and an analytical pattern matches.
C7_Witness ==
    /\ pc = "get_classification_explanation"
    /\ Len(Split(Normalized(query))) = 6
    /\ Occurring(QueryClassifierInit.llm_keywords, Normalized(query)) # {}
    /\ Matches(analytical_patterns, Normalized(query)) # {}
    /\ explanation.val.llm_score = LlmScoreAsCounted(Normalized(query))

\* What a call of process_query did: the exceptions its collaborators
\* raised, and the provider calls it made.
RaisedIn(tr) == { tr[i].raised : i \in 1..Len(tr) } \ {""}

ProviderCalls(tr) ==
    { i \in 1..Len(tr) : tr[i].call \in {"google_searcher.search", "llm_client.query"} }

IsErrorHandlerResult(r, q) ==
    /\ {"error", "query", "source"} \subseteq DOMAIN r
    /\ r.query = q
    /\ r.source = "Error Handler"

\* C8, as claimed: process_query never lets an exception escape; if the
\* classifier or the selected provider raises, it returns a result with an
\* 'error' field, the submitted query and source 'Error Handler'.
C8_NeverEscapes ==
    /\ pc # "pq_raised"
    /\ (pc = "pq_returned" /\ RaisedIn(trace) # {}) => IsErrorHandlerResult(result, query)

\* C8, amended: an exception derived from Exception never escapes
\* process_query: if the classifier or the selected provider raises one, the
\* call returns a result with the exception's text as 'error', the submitted
\* query and source 'Error Handler'.  What escapes is an exception that
\* derives from BaseException only (KeyboardInterrupt, SystemExit).
C8_ExceptionsBecomeResults ==
    /\ pc = "pq_raised" => (escaped \in BaseExceptionOnly /\ escaped \in RaisedIn(trace))
    /\ pc # "pq_raised" => escaped = ""
    /\ \A e \in RaisedIn(trace) \ BaseExceptionOnly :
           /\ pc = "pq_returned"
           /\ IsErrorHandlerResult(result, query)
           /\ result.error = e

\* C8 witness: the provider raised an exception derived from Exception and
\* process_query returned the handler's result.
C8_Witness ==
    /\ pc = "pq_returned"
    /\ RaisedIn(trace) = {"RuntimeError"}
    /\ result = [error |-> "RuntimeError", query |-> query, source |-> "Error Handler"]

\* C9: in every call of process_query the classifier is consulted first and
\* then exactly one provider is invoked exactly once, the search provider
\* for 'search' and the LLM provider for 'llm'; never both, and never a
\* provider before the classification is there.
C9_ClassifyThenOneProvider ==
    /\ Len(trace) >= 1 =>
           (trace[1].call = "classifier.classify_query" /\ trace[1].arg = query)
    /\ \A i \in ProviderCalls(trace) :
           /\ i = 2
           /\ trace[1].raised = ""
           /\ query_type = ClassifyQuery(classifier, query).val
           /\ query_type = "search" => trace[i].call = "google_searcher.search"
           /\ query_type = "llm" => trace[i].call = "llm_client.query"
           /\ query_type \in {"search", "llm"}
    /\ Cardinality(ProviderCalls(trace)) <= 1
    /\ pc \in {"pq_returned", "pq_raised"} => Cardinality(ProviderCalls(trace)) = 1
    /\ pc \in {"pq_classify", "pq_route"} => ProviderCalls(trace) = {}

\* C9 witness: a call classified 'search' has returned after the classifier
\* and then the search provider, and nothing else, were called.
C9_Witness ==
    /\ pc = "pq_returned"
    /\ query_type = "search"
    /\ Len(trace) = 2
    /\ trace[1].call = "classifier.classify_query"
    /\ trace[2].call = "google_searcher.search"

\* C10: over any sequence of process_query calls the search provider is
\* never invoked with a query that matches a mathematical pattern.
C10_NoMathematicalSearch ==
    \A i \in 1..Len(trace) :
        trace[i].call = "google_searcher.search" => ~MatchesMathPattern(trace[i].arg)

\* C10 witness: a mathematical query whose search score is greater than its
\* llm score has been sent to the LLM provider.
C10_Witness ==
    /\ pc = "pq_returned"
    /\ MatchesMathPattern(query)
    /\ SearchScoreAsCounted(Normalized(query)) > LlmScoreAsCounted(Normalized(query))
    /\ Len(trace) = 2
    /\ trace[2].call = "llm_client.query"
    /\ trace[2].arg = query

\* C11: whenever process_query of the rule-based orchestrator returns a
\* provider's result (nothing was raised), the result's query_type is what
\* classify_query returns for the query, its source is 'Google Search'
\* exactly when query_type is 'search' and 'OpenAI LLM' when it is 'llm', and
\* every field of the provider's result, an 'error' included, is kept.
C11_ProviderResultTagged ==
    (pc = "pq_returned" /\ RaisedIn(trace) = {}) =>
        /\ Len(trace) = 2
        /\ {"query_type", "source"} \subseteq DOMAIN result
        /\ result.query_type = ClassifyQuery(classifier, query).val
        /\ (result.source = "Google Search") <=> (result.query_type = "search")
        /\ result.query_type = "llm" => result.source = "OpenAI LLM"
        /\ \A k \in DOMAIN trace[2].returned : result[k] = trace[2].returned[k]

\* C11 witness: the search provider returned an error-shaped result and
\* process_query returned it with its 'error', tagged 'search' and
\* 'Google Search'.
C11_Witness ==
    /\ pc = "pq_returned"
    /\ RaisedIn(trace) = {}
    /\ "error" \in DOMAIN result
    /\ result.error = "Failed to get search results"
    /\ result.query_type = "search"
    /\ result.source = "Google Search"

\* The graph run in the trace: the indices of its node events, of its tool
\* node events, and of its routing-model calls.
NodeNames == {"_router_node", "_google_tool_node", "_llm_tool_node"}
ToolNodeNames == {"_google_tool_node", "_llm_tool_node"}
NodeRuns(tr) == { i \in 1..Len(tr) : tr[i].call \in NodeNames }
ToolNodeRuns(tr) == { i \in 1..Len(tr) : tr[i].call \in ToolNodeNames }
ModelCalls(tr) == { i \in 1..Len(tr) : tr[i].call = "llm.invoke" }
GraphFaulted(tr) == \E i \in 1..Len(tr) : tr[i].call = "graph.invoke"

\* C12: every result process_query returns, in the rule-based orchestrator
\* and in the LangGraph router, on every path, has an 'answer' field or an
\* 'error' field.
C12_AnswerOrError ==
    pc \in {"pq_returned", "lg_returned"} =>
        ("answer" \in DOMAIN result \/ "error" \in DOMAIN result)

\* C12 witness: the rule-based process_query has returned its handler's
\* result for a raising provider, which has an 'error' and no 'answer'.
C12_Witness ==
    /\ pc = "pq_returned"
    /\ RaisedIn(trace) # {}
    /\ "error" \in DOMAIN result
    /\ "answer" \notin DOMAIN result

\* C13: the router node maps the replies "search_tool", "I think google
\* search is best" and "GOOGLE" to 'google_tool', and "llm_tool", "use
\* reasoning/explain" and the unrecognized "banana" to 'llm_tool'; the reply
\* is trimmed and lowercased before it is compared, so a reply that is a
\* tool key up to case and surrounding whitespace gives that key.
C13_ReplyNormalization ==
    \A i \in ModelCalls(trace) :
        trace[i].raised = "" =>
            LET reply == trace[i].returned
                decision == trace[i - 1].returned.tool_decision
            IN  /\ trace[i - 1].call = "_router_node"
                /\ trace[i - 1].raised = ""
                /\ reply \in {"search_tool", "I think google search is best", "GOOGLE"}
                       => decision = "google_tool"
                /\ reply \in {"llm_tool", "use reasoning/explain", "banana"}
                       => decision = "llm_tool"
                /\ Normalized(reply) \in {"google_tool", "llm_tool"}
                       => decision = Normalized(reply)

\* C13 witness: the model replied " Google_Tool" and a newline, and the
\* router node decided 'google_tool'.
C13_Witness ==
    /\ pc = "lg_route"
    /\ Len(trace) = 2
    /\ trace[2].call = "llm.invoke"
    /\ trace[2].returned = " Google_Tool\n"
    /\ state.tool_decision = "google_tool"

\* C14, as claimed: if invoking the routing model fails for any reason, the
\* router node does not raise; it returns a state with tool_decision
\* 'llm_tool' and a non-empty error, and with query and result unchanged.
C14_AnyFailureFallsBack ==
    \A i \in ModelCalls(trace) :
        trace[i].raised # "" =>
            LET node == trace[i - 1]
            IN  /\ node.raised = ""
                /\ node.returned.tool_decision = "llm_tool"
                /\ node.returned.error # ""
                /\ node.returned.query = node.arg.query
                /\ node.returned.result = node.arg.result

\* C14, amended: if invoking the routing model raises an exception derived
\* from Exception, the router node does not raise; it returns a state with
\* tool_decision 'llm_tool' and a non-empty error, and with query and result
\* unchanged.  An exception that derives from BaseException only
\* (KeyboardInterrupt, SystemExit) leaves the node as it is.
C14_FailureFallsBack ==
    \A i \in ModelCalls(trace) :
        LET node == trace[i - 1]
        IN  /\ (trace[i].raised # "" /\ IsException(trace[i].raised)) =>
                   /\ node.raised = ""
                   /\ node.returned.tool_decision = "llm_tool"
                   /\ node.returned.error # ""
                   /\ node.returned.query = node.arg.query
                   /\ node.returned.result = node.arg.result
            /\ trace[i].raised \in BaseExceptionOnly => node.raised = trace[i].raised

\* C14 witness: the model call timed out and the router node returned the
\* fallback decision with the error recorded.
C14_Witness ==
    /\ pc = "lg_route"
    /\ trace[2].call = "llm.invoke"
    /\ trace[2].raised = "TimeoutError"
    /\ state.tool_decision = "llm_tool"
    /\ state.error = "Router error: TimeoutError"
    /\ state.query = query
    /\ query # ""

\* The nodes a graph run has executed, in order, and the tool node a
\* decision names.
NodeSeq(tr) == SelectSeq(tr, LAMBDA e : e.call \in NodeNames)
ToolNodeOf(decision) == "_" \o decision \o "_node"
InProcessQuery ==
    pc \in {"lg_invoke", "lg_route", "lg_google_tool", "lg_llm_tool", "lg_end",
            "lg_returned", "lg_raised"}

\* C15, as claimed: every execution of LangGraphRouter.process_query ends
\* after the router node ran exactly once, with one routing-model call, and
\* then exactly one tool node, the one tool_decision names, whether or not
\* the model call or the provider call failed; after a model failure the
\* tool is the LLM tool.
C15_RouterThenOneTool ==
    pc \in {"lg_returned", "lg_raised"} =>
        LET nodes == NodeSeq(trace)
        IN  /\ Len(nodes) = 2
            /\ nodes[1].call = "_router_node"
            /\ nodes[2].call = ToolNodeOf(state.tool_decision)
            /\ Cardinality(ModelCalls(trace)) = 1
            /\ (\E i \in ModelCalls(trace) : trace[i].raised # "")
                   => nodes[2].call = "_llm_tool_node"

\* C15, amended: in every execution of LangGraphRouter.process_query the
\* router node runs at most once and first, with one routing-model call, a
\* tool node runs only after the router node returned and is the one its
\* tool_decision names (the LLM tool after a failed model call), and at most
\* one tool node runs; when graph.invoke returns, the router node and
\* exactly one tool node have run, also when the model call or the provider
\* call raised an exception derived from Exception.  An execution ends with
\* fewer nodes only when a node lets a KeyboardInterrupt or SystemExit
\* through, or when graph.invoke itself raises.
C15_AtMostOneToolAfterRouter ==
    InProcessQuery =>
        LET nodes == NodeSeq(trace)
        IN  /\ Len(nodes) <= 2
            /\ Cardinality(ModelCalls(trace)) = (IF Len(nodes) >= 1 THEN 1 ELSE 0)
            /\ Len(nodes) >= 1 => nodes[1].call = "_router_node"
            /\ Len(nodes) = 2 =>
                   /\ nodes[1].raised = ""
                   /\ nodes[2].call = ToolNodeOf(nodes[1].returned.tool_decision)
                   /\ nodes[2].call = ToolNodeOf(state.tool_decision)
                   /\ (\E i \in ModelCalls(trace) : trace[i].raised # "")
                          => nodes[2].call = "_llm_tool_node"
            /\ (pc \in {"lg_end", "lg_returned"} /\ ~GraphFaulted(trace))
                   => (Len(nodes) = 2 /\ nodes[2].raised = "")
            /\ pc = "lg_raised" =>
                   (escaped \in BaseExceptionOnly /\ nodes[Len(nodes)].raised = escaped)

\* C15 witness: the model call and then the provider call both failed, and
\* process_query returned after the router node and the LLM tool node.
C15_Witness ==
    /\ pc = "lg_returned"
    /\ Len(trace) = 4
    /\ trace[1].call = "_router_node"
    /\ trace[2].raised = "ConnectionError"
    /\ trace[3].call = "_llm_tool_node"
    /\ trace[4].raised = "RuntimeError"

\* The tags a tool node puts on its provider's result.
SourceOf(node) == IF node = "_google_tool_node" THEN "Google Search" ELSE "OpenAI LLM"
ProviderOf(node) ==
    IF node = "_google_tool_node" THEN "google_searcher.search" ELSE "llm_client.query"

\* C16: each tool node calls its provider with the query that was submitted
\* to process_query, no node changing the state's query; when the provider
\* returns, the node's result is the provider's result tagged with
\* routing_decision equal to the state's tool_decision and with source
\* 'Google Search' (search tool) or 'OpenAI LLM' (LLM tool); the node leaves
\* tool_decision and error as they were.
C16_ToolNodeFrame ==
    InProcessQuery =>
        /\ \A i \in NodeRuns(trace) :
               trace[i].raised = "" =>
                   (trace[i].arg.query = query /\ trace[i].returned.query = query)
        /\ \A i \in ToolNodeRuns(trace) :
               LET node == trace[i]
                   provider == trace[i + 1]
               IN  /\ provider.call = ProviderOf(node.call)
                   /\ provider.arg = query
                   /\ node.raised = "" =>
                          /\ node.returned.tool_decision = node.arg.tool_decision
                          /\ node.returned.error = node.arg.error
                   /\ provider.raised = "" =>
                          /\ node.raised = ""
                          /\ node.returned.result.routing_decision = node.arg.tool_decision
                          /\ node.returned.result.source = SourceOf(node.call)
                          /\ \A k \in DOMAIN provider.returned :
                                 node.returned.result[k] = provider.returned[k]

\* C16 witness: after a failed model call (the state carries its error) the
\* LLM tool node called the provider with the submitted query and tagged the
\* result it got.
C16_Witness ==
    /\ pc = "lg_end"
    /\ query = "Explain how machine learning works"
    /\ state.error = "Router error: ConnectionError"
    /\ state.tool_decision = "llm_tool"
    /\ trace[4].call = "llm_client.query"
    /\ trace[4].arg = query
    /\ trace[4].raised = ""
    /\ state.result.routing_decision = "llm_tool"
    /\ state.result.source = "OpenAI LLM"

\* C17: if the provider raises inside a tool node, the exception does not
\* leave the node; the node's result has an 'error' field and is tagged with
\* the routing decision of the node that ran.
C17_ProviderExceptionTagged ==
    InProcessQuery =>
        \A i \in ToolNodeRuns(trace) :
            trace[i + 1].raised # "" =>
                /\ trace[i].raised = ""
                /\ "error" \in DOMAIN trace[i].returned.result
                /\ "routing_decision" \in DOMAIN trace[i].returned.result
                /\ trace[i].returned.result.routing_decision = trace[i].arg.tool_decision

\* C18: every result LangGraphRouter.process_query returns has
\* routing_method = 'LangGraph LLM Router' and a tool_decision field, on
\* every return path.
C18_AlwaysAnnotated ==
    pc = "lg_returned" =>
        /\ {"routing_method", "tool_decision"} \subseteq DOMAIN result
        /\ result.routing_method = "LangGraph LLM Router"

InExplanation == pc \in {"re_router", "re_returned", "re_raised"}

\* C19: get_routing_explanation runs only the router node: it makes exactly
\* one routing-model call and calls neither provider, and the tool_decision
\* it returns is 'google_tool' or 'llm_tool', also when the model call
\* failed.
C19_ExplanationRunsRouterOnly ==
    InExplanation =>
        /\ \A i \in 1..Len(trace) :
               trace[i].call \notin
                   ToolNodeNames \cup {"google_searcher.search", "llm_client.query"}
        /\ pc = "re_router" => trace = <<>>
        /\ pc \in {"re_returned", "re_raised"} =>
               /\ Cardinality(ModelCalls(trace)) = 1
               /\ Cardinality(NodeRuns(trace)) = 1
        /\ pc = "re_returned" =>
               /\ result.tool_decision \in {"google_tool", "llm_tool"}
               /\ result.tool_decision = state.tool_decision

\* C19 witness: the model call timed out and get_routing_explanation
\* returned 'llm_tool' with the error, after the one model call.
C19_Witness ==
    /\ pc = "re_returned"
    /\ Len(trace) = 2
    /\ trace[2].call = "llm.invoke"
    /\ trace[2].raised = "TimeoutError"
    /\ result.tool_decision = "llm_tool"
    /\ result.error = "Router error: TimeoutError"

\* What went wrong in the provider call of the trace: no response was
\* obtained (the network, the HTTP status, an undecodable body); Google
\* served a page nothing can be taken from; the API's body holds no
\* completion.
ProviderEnv == trace[1].env
SearchReturnedOrRaised == pc \in {"search_returned", "search_raised"}
QueryReturnedOrRaised == pc \in {"query_returned", "query_raised"}
SearchRequestFailed ==
    /\ ProviderEnv.first # "ok"
    /\ ~(ProviderEnv.first = "SSLError" /\ ProviderEnv.second = "ok")
NothingToExtract == ~SearchRequestFailed /\ ProviderEnv.page \in {EmptyPage, ConsentPage}
QueryRequestFailed == ProviderEnv.http # "ok"
NoCompletion == ~QueryRequestFailed /\ ProviderEnv.b \notin CompletionBodies
Interrupted(outcome) == outcome \in BaseExceptionOnly
SearchInterrupted ==
    \/ Interrupted(ProviderEnv.first)
    \/ ProviderEnv.first = "SSLError" /\ Interrupted(ProviderEnv.second)
IsErrorResult(r) ==
    /\ {"error", "answer"} \subseteq DOMAIN r
    /\ r.error # ""
    /\ r.answer # ""

\* C20, as claimed: GoogleSearcher.search and LLMClient.query never raise;
\* every network, HTTP-status, empty-response or parsing failure inside them
\* gives a result with an 'error' string and a non-empty 'answer'.
C20_NeverRaiseAlwaysError ==
    /\ pc \notin {"search_raised", "query_raised"}
    /\ (pc = "search_returned" /\ (SearchRequestFailed \/ NothingToExtract))
           => IsErrorResult(result)
    /\ (pc = "query_returned" /\ (QueryRequestFailed \/ NoCompletion))
           => IsErrorResult(result)

\* C20, amended: GoogleSearcher.search and LLMClient.query never raise an
\* exception derived from Exception: a failed request (network, HTTP status,
\* undecodable body, any other Exception) gives a result with an 'error'
\* string and a non-empty 'answer', and so does an API body without a usable
\* completion (empty, no choices, blank answer, unexpected shape).  A Google
\* page nothing can be extracted from is not reported as an error: the
\* result has the fallback text as 'answer' and no 'error'.  Every result
\* returned has a non-empty 'answer'.  What leaves the two methods is an
\* exception derived from BaseException only (KeyboardInterrupt, SystemExit).
C20_FailuresAnswered ==
    /\ SearchReturnedOrRaised =>
           /\ pc = "search_raised" <=> SearchInterrupted
           /\ pc = "search_raised" => escaped \in BaseExceptionOnly
           /\ pc = "search_returned" =>
                  /\ "answer" \in DOMAIN result /\ result.answer # ""
                  /\ SearchRequestFailed => IsErrorResult(result)
                  /\ ~SearchRequestFailed => "error" \notin DOMAIN result
                  /\ NothingToExtract =>
                         (result.answer_type = "fallback" /\ result.query = query)
    /\ QueryReturnedOrRaised =>
           /\ pc = "query_raised" <=> Interrupted(ProviderEnv.http)
           /\ pc = "query_raised" => escaped \in BaseExceptionOnly
           /\ pc = "query_returned" =>
                  /\ "answer" \in DOMAIN result /\ result.answer # ""
                  /\ (QueryRequestFailed \/ NoCompletion) => IsErrorResult(result)
                  /\ ~(QueryRequestFailed \/ NoCompletion) => "error" \notin DOMAIN result

\* C20 witness: the API answered with a body whose content is null, and
\* query returned an error result instead of raising.
C20_Witness ==
    /\ pc = "query_returned"
    /\ ProviderEnv.http = "ok"
    /\ ProviderEnv.b = 10
    /\ result.error = "Failed to process response: AttributeError"
    /\ result.answer # ""

\* What C21 says of a line: it is an exit command, or blank, once trimmed
\* and case-folded.
IsExitLine(line) == Lower(Strip(line)) \in {"quit", "exit", "q"}
IsBlankLine(line) == Strip(line) = ""
IsQuestionLine(line) == ~IsExitLine(line) /\ ~IsBlankLine(line)
QuestionLines == SelectSeq(lines_read, IsQuestionLine)

\* C21: in the interactive loop, whatever lines are typed, the loop ends at
\* the first line that is 'quit', 'exit' or 'q' once trimmed and
\* case-folded (it is the last line read); process_query is not called for
\* that line nor for a blank line, and is called exactly once, in order,
\* for every other line read.
C21_LoopEndsAtExitCommand ==
    /\ \A i \in 1..Len(lines_read) :
           IsExitLine(lines_read[i]) => (i = Len(lines_read) /\ pc = "loop_ended")
    /\ Len(calls_made) = Len(QuestionLines)
    /\ \A i \in 1..Len(calls_made) : calls_made[i] = Strip(QuestionLines[i])
    /\ pc \in {"pq_classify", "pq_route", "pq_returned", "pq_raised"} =>
           (calls_made # <<>> /\ query = calls_made[Len(calls_made)])

\* C21 witness: a blank line, a question and an exit command in upper case
\* with spaces around were typed; the loop ended with one process_query
\* call made.
C21_Witness ==
    /\ pc = "loop_ended"
    /\ lines_read = <<"  \t", "quit now", " EXIT ">>
    /\ calls_made = <<"quit now">>

\* C22: classify_query("What is the capital of France?") returns 'search':
\* the query is not mathematical, its search score is made of the keywords
\* 'what is' and 'capital of', the factual bonus of 'capital of' and the
\* question-starter bonus (1 + 1 + 2 + 1), and its llm score is lower.
C22_CapitalOfFranceIsSearch ==
    query = "What is the capital of France?" =>
        /\ pc = "classify_query" => classification = Ok("search")
        /\ pc = "get_classification_explanation" =>
               /\ explanation.exc = ""
               /\ explanation.val.classification = "search"
               /\ ~explanation.val.is_mathematical
               /\ { explanation.val.matched_search_keywords[i] :
                      i \in 1..Len(explanation.val.matched_search_keywords) }
                      = {"what is", "capital of"}
               /\ Matches(factual_patterns, Normalized(query)) = {1}
               /\ StartsWithQuestionWord(Normalized(query))
               /\ explanation.val.search_score = 1 + 1 + 2 + 1
               /\ explanation.val.llm_score < explanation.val.search_score

\* C22 witness: the query has been classified 'search' and explained with a
\* search score of 5.
C22_Witness ==
    /\ query = "What is the capital of France?"
    /\ \/ pc = "classify_query" /\ classification = Ok("search")
       \/ /\ pc = "get_classification_explanation"
          /\ explanation.val.search_score = 5
          /\ explanation.val.classification = "search"

\* C23, as claimed: the rule-based router sends 'What is machine learning?'
\* to the AI language model: classify_query returns 'llm' for it and
\* process_query calls llm_client.query.
C23_MachineLearningIsLlm ==
    (query = "What is machine learning?" /\ pc \in {"pq_route", "pq_returned", "pq_raised"})
        => /\ query_type = "llm"
           /\ \A i \in ProviderCalls(trace) : trace[i].call = "llm_client.query"

\* The elements of a list, and whether it holds no element twice.
Elements(list) == { list[i] : i \in 1..Len(list) }
NoDuplicates(list) == Cardinality(Elements(list)) = Len(list)

\* C24: for every query q, matched_search_keywords of
\* get_classification_explanation(q) holds exactly the search keywords that
\* are substrings of the lowercased, trimmed q, each once, and
\* matched_llm_keywords exactly the llm keywords that are; for "Who is the
\* CEO of Apple?" the search list includes 'who is' and 'ceo of'.
C24_MatchedKeywords ==
    pc = "get_classification_explanation" =>
        /\ explanation.exc = ""
        /\ Elements(explanation.val.matched_search_keywords)
               = Occurring(QueryClassifierInit.search_keywords, Normalized(query))
        /\ NoDuplicates(explanation.val.matched_search_keywords)
        /\ Elements(explanation.val.matched_llm_keywords)
               = Occurring(QueryClassifierInit.llm_keywords, Normalized(query))
        /\ NoDuplicates(explanation.val.matched_llm_keywords)
        /\ query = "Who is the CEO of Apple?" =>
               {"who is", "ceo of"} \subseteq Elements(explanation.val.matched_search_keywords)

\* C24 witness: the explanation of "Who is the CEO of Apple?" lists the two
\* search keywords and no llm keyword.
C24_Witness ==
    /\ pc = "get_classification_explanation"
    /\ query = "Who is the CEO of Apple?"
    /\ Elements(explanation.val.matched_search_keywords) = {"who is", "ceo of"}
    /\ explanation.val.matched_llm_keywords = <<>>

\* The markers the router node looks for in a reply.
HasSearchMarker(reply) ==
    \E m \in {"google", "search"} : IsSubstring(m, Normalized(reply))
HasLlmMarker(reply) ==
    \E m \in {"llm", "reasoning", "explain"} : IsSubstring(m, Normalized(reply))

\* C25: in the router node's normalization, a reply that is not exactly a
\* tool key and contains both a search marker ('google' or 'search') and an
\* llm marker ('llm', 'reasoning' or 'explain') gives 'google_tool': the
\* search markers are tested first.
C25_SearchMarkersFirst ==
    \A i \in ModelCalls(trace) :
        LET reply == trace[i].returned
        IN  ( /\ trace[i].raised = ""
              /\ Normalized(reply) \notin {"google_tool", "llm_tool"}
              /\ HasSearchMarker(reply)
              /\ HasLlmMarker(reply) )
                => /\ trace[i - 1].call = "_router_node"
                   /\ trace[i - 1].raised = ""
                   /\ trace[i - 1].returned.tool_decision = "google_tool"

\* C25 witness: the model replied "Explain: search", which holds 'explain'
\* before 'search', and the router node decided 'google_tool'.
C25_Witness ==
    /\ pc = "lg_route"
    /\ Len(trace) = 2
    /\ trace[2].call = "llm.invoke"
    /\ trace[2].returned = "Explain: search"
    /\ state.tool_decision = "google_tool"

\* C26: in the decision graph the conditional branch never takes the
\* 'error' edge and process_query never returns the synthetic 'No result
\* generated' result: whenever the router node returns (the model replied
\* any text, or failed) tool_decision is 'google_tool' or 'llm_tool', the
\* graph ends only after a tool node, and that node leaves a non-empty
\* result.
C26_ErrorEdgeNeverTaken ==
    /\ pc = "lg_route" =>
           /\ state.tool_decision \in {"google_tool", "llm_tool"}
           /\ RouteDecision(state) # "error"
    /\ pc = "lg_end" =>
           /\ ToolNodeRuns(trace) # {}
           /\ \A i \in ToolNodeRuns(trace) : trace[i].returned.result # EmptyDict
           /\ state.result # EmptyDict
    /\ pc = "lg_returned" =>
           /\ "answer" \in DOMAIN result
           /\ result.answer # "No result generated"
           /\ result.source # "LangGraph Router"

\* C26 witness: the model replied the unrecognized "banana"; the branch led
\* to the llm tool node and process_query returned that node's result.
C26_Witness ==
    /\ pc = "lg_returned"
    /\ Len(trace) = 4
    /\ trace[2].call = "llm.invoke"
    /\ trace[2].returned = "banana"
    /\ trace[3].call = "_llm_tool_node"
    /\ result.tool_decision = "llm_tool"
    /\ result.answer # "No result generated"

\* C27: the defensive fallback branch of the rule-based orchestrator is
\* unreachable: for every query, classify_query gives process_query only
\* 'search' or 'llm', so no result process_query returns has the source
\* 'OpenAI LLM (fallback)'.
C27_FallbackUnreachable ==
    /\ pc = "pq_route" => query_type \in {"search", "llm"}
    /\ pc = "pq_returned" =>
           /\ result.source # "OpenAI LLM (fallback)"
           /\ "query_type" \in DOMAIN result =>
                  /\ result.query_type \in {"search", "llm"}
                  /\ result.source =
                         (IF result.query_type = "search" THEN "Google Search"
                          ELSE "OpenAI LLM")

\* C27 witness: a query that is not mathematical and whose two scores are
\* equal was answered by the LLM provider under the source 'OpenAI LLM'.
C27_Witness ==
    /\ pc = "pq_returned"
    /\ ~MatchesMathPattern(query)
    /\ SearchScoreAsCounted(Normalized(query)) = LlmScoreAsCounted(Normalized(query))
    /\ "query_type" \in DOMAIN result
    /\ result.query_type = "llm"
    /\ result.source = "OpenAI LLM"

\* C28, as claimed: for each client (LLMClient with min_delay 5 s,
\* GoogleSearcher with min_delay 1 s), over any sequence of its public
\* operations, two consecutive outbound HTTP requests of that client start
\* at least min_delay apart.
C28_RequestsSpaced ==
    \A client \in {"google", "llm"} :
        Len(request_log[client]) = 2 =>
            request_log[client][2] - request_log[client][1] >= min_delay[client]

\* C29, as claimed: the 'query' field of every result process_query returns
\* is the query that was submitted, on every path: provider success,
\* provider error result, and exception.
C29_QueryEchoed ==
    pc = "pq_returned" =>
        /\ "query" \in DOMAIN result
        /\ result.query = query

\* C30: after any sequence of LLMClient.query and reset_usage_stats calls,
\* total_tokens_used is the sum of tokens_used over the queries that
\* returned a successful result since the most recent reset (or since
\* construction); a query that returns an error result leaves the counter
\* unchanged, and the counter decreases only by a reset, which sets it to 0.
C30_UsageCounter ==
    [][ /\ total_tokens_used' = tokens_since_reset'
        /\ (pc' = "query_returned" /\ "error" \in DOMAIN result')
               => total_tokens_used' = total_tokens_used
        /\ (pc' = "query_returned" /\ "error" \notin DOMAIN result')
               => /\ total_tokens_used' = total_tokens_used + result'.tokens_used
                  /\ result'.total_tokens_used = total_tokens_used'
        /\ total_tokens_used' < total_tokens_used
               => (pc = "idle" /\ pc' = "idle" /\ total_tokens_used' = 0)
      ]_vars

\* C30 witness: a query has returned a result with tokens_used 1 and the
\* counter stands at 3, a result of 2 tokens having been counted before.
C30_Witness ==
    /\ pc = "query_returned"
    /\ "error" \notin DOMAIN result
    /\ result.tokens_used = 1
    /\ total_tokens_used = 3
    /\ tokens_since_reset = 3

====
